---- MODULE Spec2Model ----
(***************************************************************************)
(* A model of prmt's template pipeline: the byte scanner of parser.rs and  *)
(* the renderer of executor.rs (sequential walk, slot array, worker pool,  *)
(* assembly), with the providers and the style engine it calls.            *)
(*                                                                         *)
(* Strings are sequences of one-byte strings: "{ok}" is <<"{","o","k","}">>*)
(* Positions are 0-based as in the source; At(bytes, i) reads byte i.      *)
(***************************************************************************)
EXTENDS Integers, Sequences, FiniteSets, TLC

VARIABLES
    mode,       \* which program runs in this behaviour: "parse", "fields" or "render"
    bytes,      \* Parser.bytes: the template being scanned
    pos,        \* Parser.pos
    tokens,     \* the Vec<Token> built by Parser::parse
    starts,     \* start offset of each token of `tokens` (history of Parser.pos)
    ppc,        \* position of Parser::parse: "scan" | "done"
    fields,     \* the five field values a placeholder was written from
    entry,      \* the function the caller invokes: "main", "render_template" or
                \* "render_tokens_parallel"
    fs,         \* the markers that exist in the current directory or above it
    registry,   \* the ModuleRegistry of the render
    context,    \* the ModuleContext of the render
    no_color,   \* the resolved no_color flag
    rpc,        \* position of the render
    path,       \* the strategy that ran: "none", "sequential" or "parallel"
    slots,      \* render_tokens_parallel: the Vec<RenderSlot>
    dynamic_indices, \* render_tokens_parallel: the indices of the Dynamic slots
    pending,    \* dynamic indices no worker has taken yet
    running,    \* dynamic indices a worker is computing
    errs,       \* the errors the workers returned
    finished,   \* dynamic indices in the order their computation finished
    writes,     \* per slot, the number of OnceLock::set calls on its cell
    taken,      \* per slot, the number of OnceLock::into_inner calls on its cell
    panicked,   \* an expect() failed
    output,     \* the String being assembled
    next,       \* assembly: position of `for slot in slots.into_iter()`
    result,     \* the Result<String> returned
    calls,      \* provider renders invoked so far
    stdout,     \* what main printed to standard output
    exit_status, \* main's ExitCode
    events,     \* the calls made so far that resolve names, walk directories,
                \* invoke a provider or touch the worker pool, in the order made
    env,        \* the machine: its available parallelism and the state of the
                \* git repository around the current directory
    statics,    \* the statics of the process: THREAD_POOL_INIT, rayon's global
                \* pool, GO_VERSION and GIT_MEMO
    renders,    \* execute calls the process has started
    threads,    \* per token of the current render, where the evaluation of its
                \* placeholder stands and the value it produced
    walk        \* detect: the directories above the current one, the markers
                \* required, and current_dir, depth and found of its loop

pvars == <<mode, bytes, pos, tokens, starts, ppc, fields>>

rvars == <<entry, fs, registry, context, no_color, rpc, path, slots, dynamic_indices,
           pending, running, errs, finished, writes, taken, panicked, output, next,
           result, calls, stdout, exit_status, events>>

procVars == <<env, statics, renders, threads, walk>>

vars == <<pvars, rvars, procVars>>

----------------------------------------------------------------------------
(* Bounds *)

MaxLen == 5          \* longest template scanned byte by byte
MaxFieldBytes == 2   \* total length of the five fields of a written placeholder
MaxPieces == 2       \* pieces (texts and placeholders) a rendered template is made of

----------------------------------------------------------------------------
(* Bytes and slices *)

\* a position that was not found (Option<usize>::None)
None == -1

\* Option<T> for structured values
Some(v) == [some |-> TRUE, value |-> v]

Nothing == [some |-> FALSE]

Alphabet == {"a", "{", "}", "\\", ":", "n", "t"}

FieldAlphabet == {"a", "\\", ":", "{", "}", "\n", "n"}

At(s, i) == s[i + 1]

\* &s[from..to], 0-based, `to` exclusive
Slice(s, from, to) == IF to <= from THEN <<>> ELSE SubSeq(s, from + 1, to)

Min(a, b) == IF a < b THEN a ELSE b

\* memchr / memchr2 / memchr3 over &s[from..]: the first offset holding one
\* of `set`, as an absolute position, or None
Memchr(s, from, set) ==
    LET hits == {j \in from..(Len(s) - 1) : At(s, j) \in set}
    IN  IF hits = {} THEN None ELSE CHOOSE j \in hits : \A k \in hits : j <= k

RECURSIVE StringsUpTo(_, _)
StringsUpTo(alpha, n) ==
    IF n = 0 THEN {<<>>}
    ELSE LET shorter == StringsUpTo(alpha, n - 1)
         IN  shorter \cup {Append(s, c) : s \in shorter, c \in alpha}

----------------------------------------------------------------------------
(* parser.rs *)

Text(t) == [kind |-> "Text", text |-> t]

Placeholder(p) == [kind |-> "Placeholder", params |-> p]

EscapeChars == {"{", "}", "\\", "n", "t", ":"}

\* a slip: the byte after the backslash is kept as it is written
Escaped_KeepsByte(c) == c

\* the escape table shared by next_token and unescape_if_needed
Escaped(c) ==
    CASE c = "n" -> "\n"
      [] c = "t" -> "\t"
      [] OTHER -> c

\* a slip: a backslash does not protect the closing brace after it
find_unescaped_IgnoresEscapes(s, i, target) == Memchr(s, i, {target})

RECURSIVE find_unescaped(_, _, _)
find_unescaped(s, i, target) ==
    IF i >= Len(s) THEN None
    ELSE LET p == Memchr(s, i, {"\\", target})
         IN  IF p = None THEN None
             ELSE IF At(s, p) = "\\" THEN find_unescaped(s, p + 2, target)
             ELSE p

\* a slip: a backslash does not protect the byte after it
RECURSIVE SplitLoop_NoEscape(_, _)
SplitLoop_NoEscape(s, st) ==
    IF st.i < Len(s) /\ st.field_idx < 4
    THEN IF At(s, st.i) = ":"
         THEN SplitLoop_NoEscape(s, [fields |-> [st.fields EXCEPT ![st.field_idx + 1] =
                                                     Slice(s, st.start, st.i)],
                                     field_idx |-> st.field_idx + 1,
                                     start |-> st.i + 1,
                                     i |-> st.i + 1])
         ELSE SplitLoop_NoEscape(s, [st EXCEPT !.i = st.i + 1])
    ELSE st

\* the while loop of split_fields; st = [fields, field_idx, start, i]
RECURSIVE SplitLoop(_, _)
SplitLoop(s, st) ==
    IF st.i < Len(s) /\ st.field_idx < 4
    THEN IF At(s, st.i) = "\\"
         THEN SplitLoop(s, [st EXCEPT !.i = st.i + 2])
         ELSE IF At(s, st.i) = ":"
         THEN SplitLoop(s, [fields |-> [st.fields EXCEPT ![st.field_idx + 1] =
                                            Slice(s, st.start, st.i)],
                            field_idx |-> st.field_idx + 1,
                            start |-> st.i + 1,
                            i |-> st.i + 1])
         ELSE SplitLoop(s, [st EXCEPT !.i = st.i + 1])
    ELSE st

\* a slip: the body is split at every colon and the first five pieces kept
split_fields_DropsTail(s) ==
    LET st == SplitLoop(s, [fields |-> <<<<>>, <<>>, <<>>, <<>>, <<>>>>,
                            field_idx |-> 0, start |-> 0, i |-> 0])
        stop == find_unescaped(s, st.start, ":")
    IN  [st.fields EXCEPT ![st.field_idx + 1] =
             Slice(s, st.start, IF stop = None THEN Len(s) ELSE stop)]

split_fields(s) ==
    LET st == SplitLoop(s, [fields |-> <<<<>>, <<>>, <<>>, <<>>, <<>>>>,
                            field_idx |-> 0, start |-> 0, i |-> 0])
    IN  [st.fields EXCEPT ![st.field_idx + 1] = Slice(s, st.start, Len(s))]

RECURSIVE UnescapeLoop(_, _)
UnescapeLoop(s, i) ==
    IF i >= Len(s) THEN <<>>
    ELSE IF At(s, i) = "\\"
         THEN IF i + 1 < Len(s)
              THEN IF At(s, i + 1) \in EscapeChars
                   THEN <<Escaped(At(s, i + 1))>> \o UnescapeLoop(s, i + 2)
                   ELSE <<"\\", At(s, i + 1)>> \o UnescapeLoop(s, i + 2)
              ELSE <<"\\">>
         ELSE <<At(s, i)>> \o UnescapeLoop(s, i + 1)

unescape_if_needed(s) ==
    IF \A k \in 1..Len(s) : s[k] /= "\\" THEN s ELSE UnescapeLoop(s, 0)

\* Nothing when the module field is empty
parse_placeholder(content) ==
    LET f == split_fields(content)
    IN  IF f[1] = <<>> THEN Nothing
        ELSE Some([module |-> unescape_if_needed(f[1]),
                   style  |-> unescape_if_needed(f[2]),
                   format |-> unescape_if_needed(f[3]),
                   prefix |-> unescape_if_needed(f[4]),
                   suffix |-> unescape_if_needed(f[5])])

\* a slip: the unreadable body is skipped together with its braces
BraceFallback_SkipsBody(s, abs_pos, end_pos) ==
    [tok |-> Text(<<"{">>),
     pos |-> Min((IF end_pos = None THEN abs_pos ELSE end_pos) + 1, Len(s))]

\* a slip: the position is left on the unreadable brace
BraceFallback_StaysPut(s, abs_pos, end_pos) == [tok |-> Text(<<"{">>), pos |-> abs_pos]

\* what the `{` arm emits when no placeholder can be read at abs_pos
\* (end_pos: the closing brace found, or None)
BraceFallback(s, abs_pos, end_pos) ==
    [tok |-> Text(<<"{">>), pos |-> Min(abs_pos + 1, Len(s))]

\* a slip: the run of plain text stops at a colon as well
PlainRun_StopsAtColon(s, p, abs_pos) ==
    LET c == Memchr(s, p + 1, {":"})
        e == IF c /= None /\ (abs_pos = None \/ c < abs_pos) THEN c
             ELSE IF abs_pos = None THEN Len(s) ELSE abs_pos
    IN  [tok |-> Text(Slice(s, p, e)), pos |-> Min(e, Len(s))]

\* a slip: a run of plain text always extends to the end of the input
PlainRun_ToEnd(s, p, abs_pos) == [tok |-> Text(Slice(s, p, Len(s))), pos |-> Len(s)]

\* the text before the next special byte (abs_pos), or the rest of the input
\* when there is none (abs_pos = None)
PlainRun(s, p, abs_pos) ==
    IF abs_pos = None
    THEN [tok |-> Text(Slice(s, p, Len(s))), pos |-> Len(s)]
    ELSE [tok |-> Text(Slice(s, p, abs_pos)), pos |-> Min(abs_pos, Len(s))]

\* Parser::next_token at position p < Len(s): the token and the new position
next_token(s, p) ==
    LET abs_pos == Memchr(s, p, {"{", "\\", "}"})
    IN  IF abs_pos = None \/ abs_pos > p
        THEN PlainRun(s, p, abs_pos)
        ELSE IF At(s, abs_pos) = "\\"
        THEN IF abs_pos + 1 < Len(s)
             THEN IF At(s, abs_pos + 1) \in EscapeChars
                  THEN [tok |-> Text(<<Escaped(At(s, abs_pos + 1))>>),
                        pos |-> Min(abs_pos + 2, Len(s))]
                  ELSE [tok |-> Text(<<"\\">>), pos |-> Min(abs_pos + 1, Len(s))]
             ELSE [tok |-> Text(<<"\\">>), pos |-> Len(s)]
        ELSE IF At(s, abs_pos) = "{"
        THEN LET end_pos == find_unescaped(s, abs_pos + 1, "}")
             IN  IF end_pos /= None
                 THEN LET params == parse_placeholder(Slice(s, abs_pos + 1, end_pos))
                      IN  IF params.some
                          THEN [tok |-> Placeholder(params.value),
                                pos |-> Min(end_pos + 1, Len(s))]
                          ELSE BraceFallback(s, abs_pos, end_pos)
                 ELSE BraceFallback(s, abs_pos, None)
        ELSE [tok |-> Text(<<"}">>), pos |-> Min(abs_pos + 1, Len(s))]

\* Parser::parse run to completion
RECURSIVE ParseFrom(_, _)
ParseFrom(s, p) ==
    IF p >= Len(s) THEN <<>>
    ELSE LET r == next_token(s, p) IN <<r.tok>> \o ParseFrom(s, r.pos)

parse(template) == ParseFrom(template, 0)

----------------------------------------------------------------------------
(* Text helpers *)

DigitChars == <<"0", "1", "2", "3", "4", "5", "6", "7", "8", "9">>

\* the decimal digits of n >= 0, as to_string and {} print them
RECURSIVE DecimalNat(_)
DecimalNat(n) ==
    IF n < 10 THEN <<DigitChars[n + 1]>>
    ELSE DecimalNat(n \div 10) \o <<DigitChars[(n % 10) + 1]>>

Decimal(n) == IF n < 0 THEN <<"-">> \o DecimalNat(0 - n) ELSE DecimalNat(n)

\* str::split(sep): the parts between the separators, empty parts kept
RECURSIVE Split(_, _)
Split(s, sep) ==
    LET p == Memchr(s, 0, {sep})
    IN  IF p = None THEN <<s>>
        ELSE <<Slice(s, 0, p)>> \o Split(Slice(s, p + 1, Len(s)), sep)

RECURSIVE Flatten(_)
Flatten(ss) == IF ss = <<>> THEN <<>> ELSE Head(ss) \o Flatten(Tail(ss))

----------------------------------------------------------------------------
(* style.rs *)

ShellDelimiters(shell) ==
    CASE shell = "Zsh"  -> [start |-> <<"%", "{">>, end |-> <<"%", "}">>]
      [] shell = "Bash" -> [start |-> <<"x01">>, end |-> <<"x02">>]
      [] OTHER          -> [start |-> <<>>, end |-> <<>>]

\* the eight named colors, in the order of their ANSI codes 30..37 / 40..47
ColorNames ==
    << <<"b","l","a","c","k">>, <<"r","e","d">>, <<"g","r","e","e","n">>,
       <<"y","e","l","l","o","w">>, <<"b","l","u","e">>, <<"p","u","r","p","l","e">>,
       <<"c","y","a","n">>, <<"w","h","i","t","e">> >>

Magenta == <<"m","a","g","e","n","t","a">>

Ok(v) == [ok |-> TRUE, value |-> v]

Err(e) == [ok |-> FALSE, error |-> e]

UnknownStyleComponent(part) == <<"Unknown style component: ">> \o part

\* a Color is [index |-> 0..7] for a named color, [index |-> 8, hex |-> text] for Hex
parse_color(value) ==
    IF \E k \in 1..8 : ColorNames[k] = value
    THEN Ok([index |-> (CHOOSE k \in 1..8 : ColorNames[k] = value) - 1, hex |-> <<>>])
    ELSE IF value = Magenta THEN Ok([index |-> 5, hex |-> <<>>])
    ELSE IF Len(value) > 0 /\ value[1] = "#" THEN Ok([index |-> 8, hex |-> value])
    ELSE Err(UnknownStyleComponent(value))

HexDigits == <<"0", "1", "2", "3", "4", "5", "6", "7", "8", "9",
               "a", "b", "c", "d", "e", "f">>

UpperHexDigits == <<"0", "1", "2", "3", "4", "5", "6", "7", "8", "9",
                    "A", "B", "C", "D", "E", "F">>

IsHexDigit(c) == \E k \in 1..16 : HexDigits[k] = c \/ UpperHexDigits[k] = c

HexValue(c) == (CHOOSE k \in 1..16 : HexDigits[k] = c \/ UpperHexDigits[k] = c) - 1

\* u8::from_str_radix(pair, 16) on a two-byte slice: two digits, or a plus
\* sign and one digit
HexPair(pair) ==
    IF IsHexDigit(pair[1]) /\ IsHexDigit(pair[2])
    THEN Ok(16 * HexValue(pair[1]) + HexValue(pair[2]))
    ELSE IF pair[1] = "+" /\ IsHexDigit(pair[2]) THEN Ok(HexValue(pair[2]))
    ELSE Err(<<>>)

RECURSIVE TrimStartHash(_)
TrimStartHash(hex) ==
    IF hex /= <<>> /\ Head(hex) = "#" THEN TrimStartHash(Tail(hex)) ELSE hex

parse_hex_color(hex) ==
    LET h == TrimStartHash(hex)
    IN  IF Len(h) /= 6 THEN Err(<<"Invalid hex color: ">> \o h)
        ELSE LET r == HexPair(SubSeq(h, 1, 2))
                 g == HexPair(SubSeq(h, 3, 4))
                 b == HexPair(SubSeq(h, 5, 6))
             IN  IF r.ok /\ g.ok /\ b.ok THEN Ok(<<r.value, g.value, b.value>>)
                 ELSE Err(<<"Invalid hex color: ">> \o h)

\* push_ansi_code (base 30 / 38) and push_ansi_bg_code (base 40 / 48); the
\* escape byte is written "ESC"
ColorCode(color, base) ==
    IF color.index < 8
    THEN <<"ESC", "[">> \o Decimal(base + color.index) \o <<"m">>
    ELSE LET rgb == parse_hex_color(color.hex)
         IN  IF rgb.ok
             THEN <<"ESC", "[">> \o Decimal(base + 8) \o <<";", "2", ";">>
                  \o Decimal(rgb.value[1]) \o <<";">> \o Decimal(rgb.value[2])
                  \o <<";">> \o Decimal(rgb.value[3]) \o <<"m">>
             ELSE <<>>

DefaultStyle ==
    [color |-> Nothing, background |-> Nothing, bold |-> FALSE, italic |-> FALSE,
     underline |-> FALSE, dim |-> FALSE, reverse |-> FALSE, strikethrough |-> FALSE]

Attributes ==
    [bold |-> <<"b","o","l","d">>, italic |-> <<"i","t","a","l","i","c">>,
     underline |-> <<"u","n","d","e","r","l","i","n","e">>, dim |-> <<"d","i","m">>,
     reverse |-> <<"r","e","v","e","r","s","e">>,
     strikethrough |-> <<"s","t","r","i","k","e","t","h","r","o","u","g","h">>]

\* one iteration of the loop of AnsiStyle::parse: the style after `part`, or the error
ParsePart(style, part) ==
    IF \E a \in DOMAIN Attributes : Attributes[a] = part
    THEN Ok([style EXCEPT ![CHOOSE a \in DOMAIN Attributes : Attributes[a] = part] = TRUE])
    ELSE LET plus == Memchr(part, 0, {"+"})
         IN  IF plus /= None
             THEN LET fg == Slice(part, 0, plus)
                      bg == Slice(part, plus + 1, Len(part))
                      fgc == parse_color(fg)
                      bgc == parse_color(bg)
                      withFg == IF fg /= <<>>
                                THEN [style EXCEPT !.color = Some(fgc.value)]
                                ELSE style
                  IN  IF fg /= <<>> /\ ~fgc.ok THEN Err(fgc.error)
                      ELSE IF bg = <<>> THEN Err(UnknownStyleComponent(part))
                      ELSE IF ~bgc.ok THEN Err(bgc.error)
                      ELSE Ok([withFg EXCEPT !.background = Some(bgc.value)])
             ELSE LET c == parse_color(part)
                  IN  IF c.ok THEN Ok([style EXCEPT !.color = Some(c.value)])
                      ELSE Err(c.error)

RECURSIVE ParseParts(_, _)
ParseParts(style, parts) ==
    IF parts = <<>> THEN Ok(style)
    ELSE LET r == ParsePart(style, Head(parts))
         IN  IF r.ok THEN ParseParts(r.value, Tail(parts)) ELSE r

AnsiStyle_parse(style_str) ==
    IF style_str = <<>> THEN Ok(DefaultStyle)
    ELSE ParseParts(DefaultStyle, Split(style_str, "."))

has_style(style) ==
    \/ style.color.some
    \/ style.background.some
    \/ style.bold \/ style.italic \/ style.underline
    \/ style.dim \/ style.reverse \/ style.strikethrough

write_raw_codes(style) ==
    (IF style.color.some THEN ColorCode(style.color.value, 30) ELSE <<>>)
    \o (IF style.background.some THEN ColorCode(style.background.value, 40) ELSE <<>>)
    \o (IF style.bold THEN <<"ESC", "[", "1", "m">> ELSE <<>>)
    \o (IF style.dim THEN <<"ESC", "[", "2", "m">> ELSE <<>>)
    \o (IF style.italic THEN <<"ESC", "[", "3", "m">> ELSE <<>>)
    \o (IF style.underline THEN <<"ESC", "[", "4", "m">> ELSE <<>>)
    \o (IF style.reverse THEN <<"ESC", "[", "7", "m">> ELSE <<>>)
    \o (IF style.strikethrough THEN <<"ESC", "[", "9", "m">> ELSE <<>>)

write_start_codes(style, shell) ==
    IF ~has_style(style) THEN <<>>
    ELSE IF shell = "None" THEN write_raw_codes(style)
    ELSE ShellDelimiters(shell).start \o write_raw_codes(style) \o ShellDelimiters(shell).end

write_reset(style, shell) ==
    IF ~has_style(style) THEN <<>>
    ELSE IF shell = "None" THEN <<"ESC", "[", "0", "m">>
    ELSE ShellDelimiters(shell).start \o <<"ESC", "[", "0", "m">> \o ShellDelimiters(shell).end

apply_with_shell(style, text, shell) ==
    IF ~has_style(style) THEN text
    ELSE write_start_codes(style, shell) \o text \o write_reset(style, shell)

----------------------------------------------------------------------------
(* error.rs, module_trait.rs, the providers of modules/ and registry.rs *)

UnknownModule(name) == [kind |-> "UnknownModule", module |-> name]

StyleError(name, error) == [kind |-> "StyleError", module |-> name, error |-> error]

InvalidFormat(name, format, valid) ==
    [kind |-> "InvalidFormat", module |-> name, format |-> format, valid_formats |-> valid]

s_ok == <<"o", "k">>

s_fail == <<"f", "a", "i", "l">>

s_go == <<"g", "o">>

s_rust == <<"r", "u", "s", "t">>

s_git == <<"g", "i", "t">>

s_code == <<"c", "o", "d", "e">>

s_full == <<"f", "u", "l", "l">>

s_short == <<"s", "h", "o", "r", "t">>

s_major == <<"m", "a", "j", "o", "r">>

\* the three bytes of the default prompt symbol U+276F
Symbol == <<"xE2", "x9D", "xAF">>

\* what `go version` reports on the machine: the toolchain is installed
GoVersion == <<"1", ".", "2", "2", ".", "0">>

OkModule_render(format, ctx) ==
    IF ctx.exit_code /= Some(0) THEN Ok(Nothing)
    ELSE Ok(Some(CASE format = <<>>   -> Symbol
                   [] format = s_code -> <<"0">>
                   [] OTHER           -> format))

\* a slip: every present exit code counts as a failure
FailModule_render_AnyCode(format, ctx) ==
    IF ~ctx.exit_code.some THEN Ok(Nothing)
    ELSE Ok(Some(CASE format = <<>> \/ format = s_full -> Symbol
                   [] format = s_code                  -> Decimal(ctx.exit_code.value)
                   [] OTHER                            -> format))

FailModule_render(format, ctx) ==
    LET exit_code == IF ctx.exit_code.some THEN ctx.exit_code.value ELSE 0
    IN  IF exit_code = 0 THEN Ok(Nothing)
        ELSE Ok(Some(CASE format = <<>> \/ format = s_full -> Symbol
                       [] format = s_code                  -> Decimal(exit_code)
                       [] OTHER                            -> format))

\* a slip: a format that is not recognised is read as "full"
validate_version_format_Lenient(format, module_name) ==
    CASE format = s_short \/ format = <<"s">> -> Ok(s_short)
      [] format = s_major \/ format = <<"m">> -> Ok(s_major)
      [] OTHER -> Ok(s_full)

validate_version_format(format, module_name) ==
    CASE format = <<>> \/ format = s_full \/ format = <<"f">> -> Ok(s_full)
      [] format = s_short \/ format = <<"s">>                 -> Ok(s_short)
      [] format = s_major \/ format = <<"m">>                 -> Ok(s_major)
      [] OTHER -> Err(InvalidFormat(module_name, format, <<"full, f, short, s, major, m">>))

\* utils::shorten_version, whose body is not part of the source tree: an
\* uninterpreted term over its argument
shorten_version(version) == <<"shorten_version(">> \o version \o <<")">>

GoModule_render(format, ctx) ==
    IF "go.mod" \notin ctx.detection THEN Ok(Nothing)
    ELSE IF ctx.no_version THEN Ok(Some(<<>>))
    ELSE LET normalized_format == validate_version_format(format, s_go)
         IN  IF ~normalized_format.ok THEN normalized_format
             ELSE CASE normalized_format.value = s_full  -> Ok(Some(GoVersion))
                    [] normalized_format.value = s_short -> Ok(Some(shorten_version(GoVersion)))
                    [] normalized_format.value = s_major -> Ok(Some(Split(GoVersion, ".")[1]))

\* utils::find_upward: the walk from the current directory to the root
find_upward(name) == IF name \in fs THEN Some(name) ELSE Nothing

\* what `rustc --version` reports on the machine: the toolchain is installed
RustVersion == <<"1", ".", "9", ".", "0">>

RustModule_render(format, ctx) ==
    IF ~find_upward("Cargo.toml").some THEN Ok(Nothing)
    ELSE IF ctx.no_version THEN Ok(Some(s_rust))
    ELSE LET normalized_format == validate_version_format(format, s_rust)
             parts == Split(RustVersion, ".")
         IN  IF ~normalized_format.ok THEN normalized_format
             ELSE CASE normalized_format.value = s_full  -> Ok(Some(RustVersion))
                    [] normalized_format.value = s_short ->
                           Ok(Some(IF Len(parts) >= 2 THEN parts[1] \o <<".">> \o parts[2]
                                   ELSE RustVersion))
                    [] normalized_format.value = s_major -> Ok(Some(parts[1]))

\* Module::render, dispatched on the provider's type
Module_render(module, format, ctx) ==
    CASE module = "OkModule"   -> OkModule_render(format, ctx)
      [] module = "FailModule" -> FailModule_render(format, ctx)
      [] module = "GoModule"   -> GoModule_render(format, ctx)
      [] module = "RustModule" -> RustModule_render(format, ctx)

Event(op, arg) == [op |-> op, arg |-> arg]

\* the walks RustModule::render makes before it looks at the context: the
\* search for Cargo.toml (the version lookup, when it is not cached, makes more)
RustModule_walks == <<Event("find_upward", "Cargo.toml")>>

\* the calls one Module::render makes, in order
render_events(module) ==
    <<Event("render", module)>> \o (IF module = "RustModule" THEN RustModule_walks ELSE <<>>)

\* Module::fs_markers
fs_markers(module) ==
    CASE module = "GoModule"  -> {"go.mod"}
      [] module = "GitModule" -> {".git"}
      [] OTHER                -> {}

Markers == {"go.mod"}

\* the providers modelled, of the names instantiate_module knows
instantiate_module(name) ==
    CASE name = s_ok   -> Some("OkModule")
      [] name = s_fail -> Some("FailModule")
      [] name = s_go   -> Some("GoModule")
      [] name = s_rust -> Some("RustModule")
      [] name = s_git  -> Some("GitModule")
      [] OTHER         -> Nothing

\* ModuleRegistry: a function from the registered names to their entries
EmptyRegistry == [n \in {} |-> [module |-> "", markers |-> {}]]

\* a slip: a name already registered keeps its first entry
register_KeepsFirst(reg, name, module) ==
    [n \in DOMAIN reg \cup {name} |->
        IF n \in DOMAIN reg THEN reg[n]
        ELSE [module |-> module, markers |-> fs_markers(module)]]

register(reg, name, module) ==
    [n \in DOMAIN reg \cup {name} |->
        IF n = name THEN [module |-> module, markers |-> fs_markers(module)]
        ELSE reg[n]]

registry_get(reg, name) ==
    IF name \in DOMAIN reg THEN Some(reg[name].module) ELSE Nothing

required_markers(reg) == UNION {reg[n].markers : n \in DOMAIN reg}

\* detector::detect, with `found` the required markers that exist in the
\* current directory or one of the ancestors the walk visits
detect(required, found) == IF required = {} THEN {} ELSE required \cap found

----------------------------------------------------------------------------
(* executor.rs: the functions that run to completion on one thread *)

\* a slip: an empty value hides its prefix and suffix
render_placeholder_EmptyHidesAffixes(module, params, ctx, plain) ==
    LET r == Module_render(module, params.format, ctx)
    IN  IF ~r.ok THEN r
        ELSE IF ~r.value.some THEN Ok(Nothing)
        ELSE IF r.value.value = <<>> THEN Ok(Nothing)
        ELSE LET segment == params.prefix \o r.value.value \o params.suffix
             IN  IF params.style = <<>> \/ plain THEN Ok(Some(segment))
                 ELSE LET style == AnsiStyle_parse(params.style)
                      IN  IF ~style.ok THEN Err(StyleError(params.module, style.error))
                          ELSE Ok(Some(apply_with_shell(style.value, segment, ctx.shell)))

\* a slip: a style that does not parse leaves the segment unstyled
render_placeholder_SwallowsStyleError(module, params, ctx, plain) ==
    LET r == Module_render(module, params.format, ctx)
    IN  IF ~r.ok THEN r
        ELSE IF ~r.value.some THEN Ok(Nothing)
        ELSE IF r.value.value = <<>> /\ params.prefix = <<>> /\ params.suffix = <<>>
        THEN Ok(Nothing)
        ELSE LET segment == params.prefix \o r.value.value \o params.suffix
             IN  IF params.style = <<>> \/ plain THEN Ok(Some(segment))
                 ELSE LET style == AnsiStyle_parse(params.style)
                      IN  IF ~style.ok THEN Ok(Some(segment))
                          ELSE Ok(Some(apply_with_shell(style.value, segment, ctx.shell)))

\* a slip: a provider without a value is rendered as an empty value
render_placeholder_AbsentAsEmpty(module, params, ctx, plain) ==
    LET r == Module_render(module, params.format, ctx)
        text == IF r.value.some THEN r.value.value ELSE <<>>
    IN  IF ~r.ok THEN r
        ELSE IF text = <<>> /\ params.prefix = <<>> /\ params.suffix = <<>>
        THEN Ok(Nothing)
        ELSE LET segment == params.prefix \o text \o params.suffix
             IN  IF params.style = <<>> \/ plain THEN Ok(Some(segment))
                 ELSE LET style == AnsiStyle_parse(params.style)
                      IN  IF ~style.ok THEN Err(StyleError(params.module, style.error))
                          ELSE Ok(Some(apply_with_shell(style.value, segment, ctx.shell)))

\* Result<Option<String>>: Err(e), Ok(Nothing) or Ok(Some(text))
render_placeholder(module, params, ctx, plain) ==
    LET r == Module_render(module, params.format, ctx)
    IN  IF ~r.ok THEN r
        ELSE IF ~r.value.some THEN Ok(Nothing)
        ELSE IF r.value.value = <<>> /\ params.prefix = <<>> /\ params.suffix = <<>>
        THEN Ok(Nothing)
        ELSE LET segment == params.prefix \o r.value.value \o params.suffix
             IN  IF params.style = <<>> \/ plain THEN Ok(Some(segment))
                 ELSE LET style == AnsiStyle_parse(params.style)
                      IN  IF ~style.ok THEN Err(StyleError(params.module, style.error))
                          ELSE Ok(Some(apply_with_shell(style.value, segment, ctx.shell)))

\* the loop of render_tokens_sequential from token k on; `n` counts the
\* provider renders invoked
RECURSIVE SequentialLoop(_, _, _, _, _, _, _)
SequentialLoop(toks, k, reg, ctx, plain, out, n) ==
    IF k > Len(toks) THEN [result |-> Ok(out), calls |-> n]
    ELSE IF toks[k].kind = "Text"
    THEN SequentialLoop(toks, k + 1, reg, ctx, plain, out \o toks[k].text, n)
    ELSE LET params == toks[k].params
             module == registry_get(reg, params.module)
         IN  IF ~module.some
             THEN [result |-> Err(UnknownModule(params.module)), calls |-> n]
             ELSE LET r == render_placeholder(module.value, params, ctx, plain)
                  IN  IF ~r.ok THEN [result |-> r, calls |-> n + 1]
                      ELSE SequentialLoop(toks, k + 1, reg, ctx, plain,
                                          IF r.value.some THEN out \o r.value.value ELSE out,
                                          n + 1)

render_tokens_sequential(toks, reg, ctx, plain) ==
    SequentialLoop(toks, 1, reg, ctx, plain, <<>>, 0)

\* the calls render_tokens_sequential makes on the way to its first n
\* provider renders, from token k on
RECURSIVE SequentialEvents(_, _, _, _)
SequentialEvents(toks, k, reg, n) ==
    IF k > Len(toks) \/ n = 0 THEN <<>>
    ELSE IF toks[k].kind = "Text" THEN SequentialEvents(toks, k + 1, reg, n)
    ELSE render_events(registry_get(reg, toks[k].params.module).value)
             \o SequentialEvents(toks, k + 1, reg, n - 1)

count_placeholders(toks) == Cardinality({k \in 1..Len(toks) : toks[k].kind = "Placeholder"})

\* the loop of build_registry from token k on
RECURSIVE BuildRegistryLoop(_, _, _)
BuildRegistryLoop(toks, k, reg) ==
    IF k > Len(toks) THEN Ok(reg)
    ELSE IF toks[k].kind /= "Placeholder" \/ toks[k].params.module \in DOMAIN reg
    THEN BuildRegistryLoop(toks, k + 1, reg)
    ELSE LET name == toks[k].params.module
             module == instantiate_module(name)
         IN  IF ~module.some THEN Err(UnknownModule(name))
             ELSE BuildRegistryLoop(toks, k + 1, register(reg, name, module.value))

build_registry(toks) == BuildRegistryLoop(toks, 1, EmptyRegistry)

\* a slip: every template is rendered by the sequential walk
UsesSequential_Always(placeholder_count) == TRUE

\* the test of render_tokens
UsesSequential(placeholder_count) == placeholder_count <= 1

----------------------------------------------------------------------------
(* Scanning a template token by token *)

\* no long-lived process is modelled
ProcessIdle ==
    /\ env = <<>>
    /\ statics = <<>>
    /\ renders = 0
    /\ threads = <<>>
    /\ walk = <<>>

\* the renderer is not running
RenderIdle ==
    /\ ProcessIdle
    /\ entry = "none"
    /\ fs = {}
    /\ registry = <<>>
    /\ context = <<>>
    /\ no_color = FALSE
    /\ rpc = "idle"
    /\ path = "none"
    /\ slots = <<>>
    /\ dynamic_indices = <<>>
    /\ pending = {}
    /\ running = {}
    /\ errs = {}
    /\ finished = <<>>
    /\ writes = <<>>
    /\ taken = <<>>
    /\ panicked = FALSE
    /\ output = <<>>
    /\ next = 1
    /\ result = Nothing
    /\ calls = 0
    /\ stdout = <<>>
    /\ exit_status = "running"
    /\ events = <<>>

\* the template \{escaped\} {real} of capacity_test
EscapedExample ==
    <<"\\", "{", "e", "s", "c", "a", "p", "e", "d", "\\", "}", " ",
      "{", "r", "e", "a", "l", "}">>

\* the template {module:{nested}} of parser_test
NestedExample ==
    <<"{", "m", "o", "d", "u", "l", "e", ":", "{", "n", "e", "s", "t", "e", "d", "}", "}">>

ParseInit ==
    /\ RenderIdle
    /\ mode = "parse"
    /\ bytes \in StringsUpTo(Alphabet, MaxLen) \cup {EscapedExample, NestedExample}
    /\ pos = 0
    /\ tokens = <<>>
    /\ starts = <<>>
    /\ ppc = "scan"
    /\ fields = <<>>

\* one iteration of `while let Some(token) = self.next_token()`
ParseStep ==
    /\ ppc = "scan"
    /\ pos < Len(bytes)
    /\ LET r == next_token(bytes, pos)
       IN  /\ tokens' = Append(tokens, r.tok)
           /\ starts' = Append(starts, pos)
           /\ pos' = r.pos
    /\ UNCHANGED <<mode, bytes, ppc, fields, rvars, procVars>>

\* next_token returns None and parse returns the tokens
ParseReturn ==
    /\ ppc = "scan"
    /\ pos >= Len(bytes)
    /\ ppc' = "done"
    /\ UNCHANGED <<mode, bytes, pos, tokens, starts, fields, rvars, procVars>>

ParseNext == ParseStep \/ ParseReturn

ParseSpec == ParseInit /\ [][ParseNext]_vars

----------------------------------------------------------------------------
(* Writing a placeholder from five field values, then scanning it *)

\* the tuples of k strings over alpha whose lengths sum to at most n
RECURSIVE FieldTuples(_, _, _)
FieldTuples(alpha, k, n) ==
    IF k = 0 THEN {<<>>}
    ELSE UNION {{<<s>> \o t : t \in FieldTuples(alpha, k - 1, n - Len(s))} :
                 s \in StringsUpTo(alpha, n)}

\* a field as the template's author writes it: each byte the six escapes
\* produce is written as its escape
EscapeByte(c) ==
    CASE c = "\\" -> <<"\\", "\\">>
      [] c = ":"  -> <<"\\", ":">>
      [] c = "{"  -> <<"\\", "{">>
      [] c = "}"  -> <<"\\", "}">>
      [] c = "\n" -> <<"\\", "n">>
      [] c = "\t" -> <<"\\", "t">>
      [] OTHER    -> <<c>>

RECURSIVE EscapeField(_)
EscapeField(f) ==
    IF f = <<>> THEN <<>> ELSE EscapeByte(Head(f)) \o EscapeField(Tail(f))

WrittenPlaceholder(f) ==
    <<"{">> \o EscapeField(f[1]) \o <<":">> \o EscapeField(f[2]) \o <<":">>
            \o EscapeField(f[3]) \o <<":">> \o EscapeField(f[4]) \o <<":">>
            \o EscapeField(f[5]) \o <<"}">>

FieldInit ==
    /\ RenderIdle
    /\ mode = "fields"
    /\ fields \in {f \in FieldTuples(FieldAlphabet, 5, MaxFieldBytes) : f[1] /= <<>>}
    /\ bytes = <<>>
    /\ pos = 0
    /\ tokens = <<>>
    /\ starts = <<>>
    /\ ppc = "write"

WritePlaceholder ==
    /\ ppc = "write"
    /\ bytes' = WrittenPlaceholder(fields)
    /\ ppc' = "scan"
    /\ UNCHANGED <<mode, pos, tokens, starts, fields, rvars, procVars>>

FieldNext == WritePlaceholder \/ ParseStep \/ ParseReturn

FieldSpec == FieldInit /\ [][FieldNext]_vars

----------------------------------------------------------------------------
(* split_fields on the body of a placeholder *)

MaxBody == 6

BodyAlphabet == {"a", ":", "\\"}

SplitInit ==
    /\ RenderIdle
    /\ mode = "split"
    /\ bytes \in StringsUpTo(BodyAlphabet, MaxBody)
    /\ pos = 0
    /\ tokens = <<>>
    /\ starts = <<>>
    /\ ppc = "call"
    /\ fields = <<>>

\* split_fields(content) returns its array of five slices
SplitFields ==
    /\ mode = "split"
    /\ ppc = "call"
    /\ fields' = split_fields(bytes)
    /\ ppc' = "done"
    /\ UNCHANGED <<mode, bytes, pos, tokens, starts, rvars, procVars>>

SplitNext == SplitFields

SplitSpec == SplitInit /\ [][SplitNext]_vars

----------------------------------------------------------------------------
(* Rendering a template: main, execute_with_shell, render_template,         *)
(* render_tokens and the slots, workers and assembly of                     *)
(* render_tokens_parallel. Slots are numbered from 1.                       *)

\* the pieces templates are made of
Pieces ==
    { <<"a">>,
      <<"{","o","k",":","r","e","d",":",":","(",":",")","}">>,
      <<"{","f","a","i","l",":","z","z",":","c","o","d","e",":","[","}">>,
      <<"{","g","o",":",":",":","<","}">>,
      <<"{","g","o",":","z","z",":","x","}">>,
      <<"{","n","o","p","e","}">> }

Templates == {Flatten(ps) : ps \in StringsUpTo(Pieces, MaxPieces)}

Entries == {"main", "render_template", "render_tokens_parallel"}

ExitCodes == {Nothing, Some(0), Some(1)}

Shells == {"None", "Bash"}

\* a registry the caller built with every provider, as the benches do
FullRegistry ==
    register(register(register(EmptyRegistry, s_ok, "OkModule"),
                      s_fail, "FailModule"), s_go, "GoModule")

RenderInit ==
    /\ mode = "render"
    /\ ProcessIdle
    /\ bytes \in Templates
    /\ pos = 0
    /\ tokens = <<>>
    /\ starts = <<>>
    /\ ppc = "idle"
    /\ fields = <<>>
    /\ entry \in Entries
    /\ fs \in SUBSET Markers
    /\ registry = IF entry = "main" THEN EmptyRegistry ELSE FullRegistry
    /\ \E nv \in BOOLEAN, ec \in ExitCodes, sh \in Shells :
          context = [no_version |-> nv, exit_code |-> ec, shell |-> sh,
                     detection |-> IF entry = "main" THEN {} ELSE fs]
    /\ no_color \in BOOLEAN
    /\ rpc = "call"
    /\ path = "none"
    /\ slots = <<>>
    /\ dynamic_indices = <<>>
    /\ pending = {}
    /\ running = {}
    /\ errs = {}
    /\ finished = <<>>
    /\ writes = <<>>
    /\ taken = <<>>
    /\ panicked = FALSE
    /\ output = <<>>
    /\ next = 1
    /\ result = Nothing
    /\ calls = 0
    /\ stdout = <<>>
    /\ exit_status = "running"
    /\ events = <<>>

parserIdle == <<mode, bytes, pos, starts, ppc, fields>>

poolVars == <<pending, running, errs, finished>>

slotVars == <<slots, dynamic_indices, writes, taken, panicked>>

mainVars == <<stdout, exit_status>>

\* execute_with_shell calls detect unless no provider requires a marker
DetectCalls(required) == IF required = {} THEN <<>> ELSE <<Event("detect", "")>>

\* execute_with_shell up to its call of render_tokens
Execute ==
    /\ mode = "render" /\ entry = "main" /\ rpc = "call"
    /\ tokens' = parse(bytes)
    /\ LET built == build_registry(tokens')
       IN  IF ~built.ok
           THEN /\ result' = built
                /\ rpc' = "returned"
                /\ events' = Append(events, Event("build_registry", ""))
                /\ UNCHANGED <<registry, context>>
           ELSE /\ registry' = built.value
                /\ context' = [context EXCEPT
                                 !.detection = detect(required_markers(built.value), fs)]
                /\ events' = events \o <<Event("build_registry", "")>>
                                     \o DetectCalls(required_markers(built.value))
                /\ rpc' = "render_tokens"
                /\ UNCHANGED result
    /\ UNCHANGED <<parserIdle, entry, fs, no_color, path, slotVars, poolVars, output,
                   next, calls, mainVars, procVars>>

\* render_template up to its call of render_tokens
RenderTemplate ==
    /\ mode = "render" /\ entry = "render_template" /\ rpc = "call"
    /\ tokens' = parse(bytes)
    /\ rpc' = "render_tokens"
    /\ UNCHANGED <<parserIdle, entry, fs, registry, context, no_color, path, slotVars,
                   poolVars, output, next, result, calls, mainVars, events, procVars>>

\* render_tokens_parallel called on the tokens of the template
CallParallel ==
    /\ mode = "render" /\ entry = "render_tokens_parallel" /\ rpc = "call"
    /\ tokens' = parse(bytes)
    /\ rpc' = "parallel"
    /\ UNCHANGED <<parserIdle, entry, fs, registry, context, no_color, path, slotVars,
                   poolVars, output, next, result, calls, mainVars, events, procVars>>

\* render_tokens takes the sequential branch, which runs to its return
RenderSequential ==
    /\ rpc = "render_tokens"
    /\ UsesSequential(count_placeholders(tokens))
    /\ \E r \in {render_tokens_sequential(tokens, registry, context, no_color)} :
          /\ result' = r.result
          /\ calls' = calls + r.calls
          /\ events' = events \o SequentialEvents(tokens, 1, registry, r.calls)
    /\ path' = "sequential"
    /\ rpc' = "returned"
    /\ UNCHANGED <<pvars, entry, fs, registry, context, no_color, slotVars, poolVars,
                   output, next, mainVars, procVars>>

Static(text) == [kind |-> "Static", text |-> text]

\* a Dynamic slot; `output` is its OnceLock: Nothing until set, then Some(value)
Dynamic(params, module) ==
    [kind |-> "Dynamic", params |-> params, module |-> module, output |-> Nothing]

\* the first loop of render_tokens_parallel from token k on: the slots, or
\* the UnknownModule error
RECURSIVE SlotLoop(_, _, _, _)
SlotLoop(toks, k, reg, acc) ==
    IF k > Len(toks) THEN Ok(acc)
    ELSE IF toks[k].kind = "Text" THEN SlotLoop(toks, k + 1, reg, Append(acc, Static(toks[k].text)))
    ELSE LET module == registry_get(reg, toks[k].params.module)
         IN  IF ~module.some THEN Err(UnknownModule(toks[k].params.module))
             ELSE SlotLoop(toks, k + 1, reg, Append(acc, Dynamic(toks[k].params, module.value)))

RECURSIVE Ascending(_, _)
Ascending(set, from) ==
    IF set = {} THEN <<>>
    ELSE LET m == CHOOSE x \in set : \A y \in set : x <= y
         IN  <<m>> \o Ascending(set \ {m}, m)

\* render_tokens takes the parallel branch, or render_tokens_parallel is
\* called: the slots are built and every module name is resolved
BuildSlots ==
    /\ \/ rpc = "parallel"
       \/ rpc = "render_tokens" /\ ~UsesSequential(count_placeholders(tokens))
    /\ path' = "parallel"
    /\ LET built == SlotLoop(tokens, 1, registry, <<>>)
       IN  IF ~built.ok
           THEN /\ result' = built
                /\ rpc' = "returned"
                /\ UNCHANGED <<slots, dynamic_indices, writes, taken>>
           ELSE LET dyn == {k \in 1..Len(built.value) : built.value[k].kind = "Dynamic"}
                IN  /\ slots' = built.value
                    /\ dynamic_indices' = Ascending(dyn, 0)
                    /\ writes' = [k \in 1..Len(built.value) |-> 0]
                    /\ taken' = [k \in 1..Len(built.value) |-> 0]
                    /\ rpc' = IF Cardinality(dyn) <= 1 THEN "inline" ELSE "pool"
                    /\ UNCHANGED result
    /\ UNCHANGED <<pvars, entry, fs, registry, context, no_color, panicked, poolVars,
                   output, next, calls, mainVars, events, procVars>>

\* compute_slot on slot `index`: the error, or the slots with the cell written;
\* a cell that is already set makes the expect() panic
compute_slot(index) ==
    LET slot == slots[index]
        value == render_placeholder(slot.module, slot.params, context, no_color)
    IN  IF ~value.ok THEN [error |-> Some(value.error), slots |-> slots,
                           set_called |-> FALSE, panics |-> FALSE]
        ELSE IF slot.output.some
        THEN [error |-> Nothing, slots |-> slots, set_called |-> TRUE, panics |-> TRUE]
        ELSE [error |-> Nothing,
              slots |-> [slots EXCEPT ![index].output = Some(value.value)],
              set_called |-> TRUE, panics |-> FALSE]

\* at most one dynamic slot: it is computed on the calling thread
ComputeInline ==
    /\ rpc = "inline"
    /\ IF dynamic_indices = <<>>
       THEN /\ rpc' = "assemble"
            /\ UNCHANGED <<slots, writes, panicked, calls, result, finished, events>>
       ELSE \E index \in {dynamic_indices[1]} : \E c \in {compute_slot(index)} :
                /\ calls' = calls + 1
                /\ events' = events \o render_events(slots[index].module)
                /\ slots' = c.slots
                /\ writes' = [writes EXCEPT ![index] = @ + (IF c.set_called THEN 1 ELSE 0)]
                /\ panicked' = (panicked \/ c.panics)
                /\ finished' = Append(finished, index)
                /\ IF c.error.some
                   THEN result' = Err(c.error.value) /\ rpc' = "returned"
                   ELSE UNCHANGED result /\ rpc' = IF c.panics THEN "panicked" ELSE "assemble"
    /\ UNCHANGED <<pvars, entry, fs, registry, context, no_color, path, dynamic_indices,
                   taken, pending, running, errs, output, next, mainVars, procVars>>

\* two or more dynamic slots: ensure_thread_pool, then par_iter hands the
\* indices to the pool
DispatchPool ==
    /\ rpc = "pool"
    /\ pending' = {dynamic_indices[k] : k \in 1..Len(dynamic_indices)}
    /\ rpc' = "workers"
    /\ UNCHANGED <<pvars, entry, fs, registry, context, no_color, path, slotVars, running,
                   errs, finished, output, next, result, calls, mainVars, events, procVars>>

\* a slip: an index a worker took stays available to the others
Remaining_KeepsIndex(indices, index) == indices

\* par_iter gives each index to one worker
Remaining(indices, index) == indices \ {index}

\* a worker takes an index
WorkerStart(index) ==
    /\ rpc = "workers"
    /\ index \in pending
    /\ pending' = Remaining(pending, index)
    /\ running' = running \cup {index}
    /\ UNCHANGED <<pvars, entry, fs, registry, context, no_color, rpc, path, slotVars,
                   errs, finished, output, next, result, calls, mainVars, events, procVars>>

\* a worker's compute_slot returns
WorkerFinish(index) ==
    /\ rpc = "workers"
    /\ index \in running
    /\ \E c \in {compute_slot(index)} :
           /\ calls' = calls + 1
           /\ events' = events \o render_events(slots[index].module)
           /\ slots' = c.slots
           /\ writes' = [writes EXCEPT ![index] = @ + (IF c.set_called THEN 1 ELSE 0)]
           /\ panicked' = (panicked \/ c.panics)
           /\ errs' = IF c.error.some THEN errs \cup {c.error.value} ELSE errs
           /\ rpc' = IF c.panics THEN "panicked" ELSE rpc
    /\ running' = running \ {index}
    /\ finished' = Append(finished, index)
    /\ UNCHANGED <<pvars, entry, fs, registry, context, no_color, path, dynamic_indices,
                   taken, pending, output, next, result, mainVars, procVars>>

\* a slip: the result of try_for_each is dropped
PoolErrors_Ignored(errors) == {}

\* the errors try_for_each may return: one of those the workers returned
PoolErrors(errors) == errors

\* a slip: try_for_each returns once every index was handed out, without
\* waiting for the workers
try_for_each_returns_Early(pend, run, errors) == pend = {} \/ errors /= {}

\* when try_for_each can return: every worker that started has finished, and
\* no index is left unless an error stopped the iteration
try_for_each_returns(pend, run, errors) == run = {} /\ (pend = {} \/ errors /= {})

\* try_for_each returns
Join ==
    /\ rpc = "workers"
    /\ try_for_each_returns(pending, running, errs)
    /\ IF PoolErrors(errs) /= {}
       THEN /\ \E e \in PoolErrors(errs) : result' = Err(e)
            /\ rpc' = "returned"
       ELSE /\ rpc' = "assemble"
            /\ UNCHANGED result
    /\ UNCHANGED <<pvars, entry, fs, registry, context, no_color, path, slotVars, poolVars,
                   output, next, calls, mainVars, events, procVars>>

\* a slip: the dynamic slots are visited in the order their workers finished
AssemblyIndex_CompletionOrder(n) ==
    IF slots[n].kind = "Static" THEN n
    ELSE finished[CHOOSE k \in 1..Len(dynamic_indices) : dynamic_indices[k] = n]

\* the slot the n-th iteration of the assembly loop visits
AssemblyIndex(n) == n

\* one iteration of `for slot in slots.into_iter()`
AssembleStep ==
    /\ rpc = "assemble"
    /\ next <= Len(slots)
    /\ LET index == AssemblyIndex(next)
           slot == slots[index]
       IN  IF slot.kind = "Static"
           THEN /\ output' = output \o slot.text
                /\ UNCHANGED taken
           ELSE /\ taken' = [taken EXCEPT ![index] = @ + 1]
                /\ output' = IF slot.output.some /\ slot.output.value.some
                             THEN output \o slot.output.value.value
                             ELSE output
    /\ next' = next + 1
    /\ UNCHANGED <<pvars, entry, fs, registry, context, no_color, rpc, path, slots,
                   dynamic_indices, writes, panicked, poolVars, result, calls, mainVars,
                   events, procVars>>

\* render_tokens_parallel returns Ok(output)
AssembleReturn ==
    /\ rpc = "assemble"
    /\ next > Len(slots)
    /\ result' = Ok(output)
    /\ rpc' = "returned"
    /\ UNCHANGED <<pvars, entry, fs, registry, context, no_color, path, slotVars, poolVars,
                   output, next, calls, mainVars, events, procVars>>

\* a slip: the error message goes to standard output
MainStdout_PrintsError(res) ==
    IF res.ok THEN res.value ELSE <<"Error: ">>

\* what main writes to standard output for the result of the render
MainStdout(res) == IF res.ok THEN res.value ELSE <<>>

\* main matches on the result
Main ==
    /\ entry = "main"
    /\ rpc = "returned"
    /\ stdout' = MainStdout(result)
    /\ exit_status' = IF result.ok THEN "SUCCESS" ELSE "FAILURE"
    /\ rpc' = "exited"
    /\ UNCHANGED <<pvars, entry, fs, registry, context, no_color, path, slotVars, poolVars,
                   output, next, result, calls, events, procVars>>

Next ==
    \/ Execute
    \/ RenderTemplate
    \/ CallParallel
    \/ RenderSequential
    \/ BuildSlots
    \/ ComputeInline
    \/ DispatchPool
    \/ \E index \in 1..Len(slots) : WorkerStart(index)
    \/ \E index \in 1..Len(slots) : WorkerFinish(index)
    \/ Join
    \/ AssembleStep
    \/ AssembleReturn
    \/ Main

Spec == RenderInit /\ [][Next]_vars

(* execute_with_shell as main calls it, on templates that name the          *)
(* providers of both kinds: those that declare their markers and those      *)
(* that search for them                                                     *)

ExecutePieces ==
    { <<"a">>,
      <<"{","r","u","s","t","}">>,
      <<"{","g","o","}">>,
      <<"{","o","k",":","}">>,
      <<"{","f","a","i","l",":","}">>,
      <<"{","f","a","i","l",":",":","c","o","d","e","}">>,
      <<"{","n","o","p","e","}">> }

ExecuteTemplates == {Flatten(ps) : ps \in StringsUpTo(ExecutePieces, MaxPieces)}

ExecuteMarkers == {"go.mod", "Cargo.toml"}

\* the --code values main passes on: none, success, and failures of one and
\* of several digits, one of them negative
ExecuteExitCodes == {Nothing, Some(0), Some(1), Some(130), Some(-1)}

ExecuteInit ==
    /\ mode = "render"
    /\ ProcessIdle
    /\ bytes \in ExecuteTemplates
    /\ pos = 0
    /\ tokens = <<>>
    /\ starts = <<>>
    /\ ppc = "idle"
    /\ fields = <<>>
    /\ entry = "main"
    /\ fs \in SUBSET ExecuteMarkers
    /\ registry = EmptyRegistry
    /\ \E nv \in BOOLEAN, ec \in ExecuteExitCodes :
          context = [no_version |-> nv, exit_code |-> ec, shell |-> "None",
                     detection |-> {}]
    /\ no_color = FALSE
    /\ rpc = "call"
    /\ path = "none"
    /\ slots = <<>>
    /\ dynamic_indices = <<>>
    /\ pending = {}
    /\ running = {}
    /\ errs = {}
    /\ finished = <<>>
    /\ writes = <<>>
    /\ taken = <<>>
    /\ panicked = FALSE
    /\ output = <<>>
    /\ next = 1
    /\ result = Nothing
    /\ calls = 0
    /\ stdout = <<>>
    /\ exit_status = "running"
    /\ events = <<>>

ExecuteNext ==
    \/ Execute
    \/ RenderSequential
    \/ BuildSlots
    \/ DispatchPool
    \/ \E index \in 1..Len(slots) : WorkerStart(index)
    \/ \E index \in 1..Len(slots) : WorkerFinish(index)
    \/ Join
    \/ AssembleStep
    \/ AssembleReturn
    \/ Main

ExecuteSpec == ExecuteInit /\ [][ExecuteNext]_vars

----------------------------------------------------------------------------
(* A long-lived process that calls execute several times: the statics of    *)
(* executor.rs, memo.rs and rayon, and the providers that use them. The     *)
(* evaluation of a placeholder is a thread that takes one step for each     *)
(* access to a static.                                                      *)

Clamp(n, lo, hi) == IF n < lo THEN lo ELSE IF n > hi THEN hi ELSE n

\* the statics before their first use; GIT_MEMO holds the entry of the one
\* repository the process runs in
InitialStatics ==
    [THREAD_POOL_INIT |-> FALSE, pool |-> Nothing, GO_VERSION |-> Nothing,
     GIT_MEMO |-> Nothing]

\* std::thread::available_parallelism().map(..).unwrap_or(1)
available_parallelism_or_1(cpus) == IF cpus.some THEN cpus.value ELSE 1

\* ThreadPoolBuilder::build_global: an error once the global pool exists
build_global(pool, num_threads) == IF pool.some THEN pool ELSE Some(num_threads)

ensure_thread_pool(st, cpus) ==
    IF st.THREAD_POOL_INIT THEN st
    ELSE LET max_threads == Clamp(available_parallelism_or_1(cpus), 1, 4)
         IN  [st EXCEPT !.THREAD_POOL_INIT = TRUE,
                        !.pool = build_global(st.pool, max_threads)]

\* rayon::join called by a thread outside the pool: the global pool, which is
\* built with rayon's default size when nothing has built it yet
join(pool, cpus) == IF pool.some THEN pool ELSE Some(available_parallelism_or_1(cpus))

\* a slip: the slot is read as unset
OnceLock_get_Unset(slot) == Nothing

\* OnceLock::get
OnceLock_get(slot) == slot

\* OnceLock::set: the first value stays
OnceLock_set(slot, value) == IF slot.some THEN slot ELSE Some(value)

\* what get_go_version can return: the output of `go version`, or nothing
FetchResults == {Nothing, Some(GoVersion)}

\* GoModule::render up to memoized_version: the value returned early, or
\* the normalized format
GoModule_before_memo(format, ctx) ==
    IF "go.mod" \notin ctx.detection THEN [returns |-> TRUE, value |-> Ok(Nothing)]
    ELSE IF ctx.no_version THEN [returns |-> TRUE, value |-> Ok(Some(<<>>))]
    ELSE LET normalized_format == validate_version_format(format, s_go)
         IN  IF ~normalized_format.ok THEN [returns |-> TRUE, value |-> normalized_format]
             ELSE [returns |-> FALSE, value |-> normalized_format]

\* GoModule::render from the result of memoized_version on
GoModule_after_memo(version, normalized_format) ==
    IF ~version.some THEN Ok(Nothing)
    ELSE CASE normalized_format = s_full  -> Ok(Some(version.value))
           [] normalized_format = s_short -> Ok(Some(shorten_version(version.value)))
           [] normalized_format = s_major -> Ok(Some(Split(version.value, ".")[1]))

GitFormat(git_mode, owned_only) == [mode |-> git_mode, owned_only |-> owned_only]

RECURSIVE GitFormatLoop(_, _, _, _, _)
GitFormatLoop(format, parts, k, git_mode, owned_only) ==
    IF k > Len(parts)
    THEN Ok(GitFormat(IF git_mode.some THEN git_mode.value ELSE "Full", owned_only))
    ELSE LET part == parts[k]
         IN  CASE part = <<>> -> GitFormatLoop(format, parts, k + 1, git_mode, owned_only)
               [] part \in {s_full, <<"f">>} ->
                      GitFormatLoop(format, parts, k + 1, Some("Full"), owned_only)
               [] part \in {s_short, <<"s">>} ->
                      GitFormatLoop(format, parts, k + 1, Some("Short"), owned_only)
               [] part \in {<<"o","w","n","e","d">>, <<"o">>,
                            <<"o","w","n","e","d","-","o","n","l","y">>,
                            <<"o","w","n","e","d","_","o","n","l","y">>} ->
                      GitFormatLoop(format, parts, k + 1, git_mode, TRUE)
               [] OTHER -> Err(InvalidFormat(s_git, format,
                                             <<"full, f, short, s, +o, +owned">>))

parse_git_format(format) == GitFormatLoop(format, Split(format, "+"), 1, Nothing, FALSE)

\* the repository belongs to the user
is_repo_owned_by_user == TRUE

GitInfo(branch, status) ==
    [branch |-> branch, has_changes |-> "MODIFIED" \in status,
     has_staged |-> "STAGED" \in status, has_untracked |-> "UNTRACKED" \in status]

\* branch_and_status: the branch, and the status when it is asked for
branch_and_status(repo, need_status) ==
    [branch |-> repo.branch, status |-> IF need_status THEN repo.status ELSE {}]

\* the text GitModule::render builds from the branch and the three flags
GitResult(git_mode, info) ==
    IF git_mode = "Short" THEN Ok(Some(info.branch))
    ELSE Ok(Some(info.branch \o (IF info.has_changes THEN <<"*">> ELSE <<>>)
                             \o (IF info.has_staged THEN <<"+">> ELSE <<>>)
                             \o (IF info.has_untracked THEN <<"?">> ELSE <<>>)))

\* GitModule::render up to the lookup in GIT_MEMO: the value returned early, or
\* the parsed format
GitModule_before_memo(format, ctx) ==
    LET parsed == parse_git_format(format)
    IN  IF ~parsed.ok THEN [returns |-> TRUE, value |-> parsed]
        ELSE IF ".git" \notin ctx.detection THEN [returns |-> TRUE, value |-> Ok(Nothing)]
        ELSE IF parsed.value.owned_only /\ ~is_repo_owned_by_user
        THEN [returns |-> TRUE, value |-> Ok(Nothing)]
        ELSE [returns |-> FALSE, value |-> parsed]

\* the templates the process renders
ProcessTemplates ==
    LET T == <<"a">>
        G == <<"{","g","i","t","}">>
        S == <<"{","g","i","t",":",":","s","h","o","r","t","}">>
        V == <<"{","g","o","}">>
        O == <<"{","o","k","}">>
    IN  {Flatten(ps) : ps \in {<<T>>, <<G>>, <<S>>, <<V>>, <<O>>, <<S, G>>, <<G, S>>,
                               <<V, V>>, <<G, T, V>>, <<O, S>>}}

MaxRenders == 2      \* execute calls one process makes

\* the machine the process runs on
Environments ==
    [cpus : {Nothing, Some(2), Some(8)},
     repo : [branch : {<<"m">>}, status : {{}, {"MODIFIED", "UNTRACKED"}}]]

ProcessInit ==
    /\ mode = "process"
    /\ bytes = <<>>
    /\ pos = 0
    /\ tokens = <<>>
    /\ starts = <<>>
    /\ ppc = "idle"
    /\ fields = <<>>
    /\ entry = "execute"
    /\ fs = {".git", "go.mod"}
    /\ registry = EmptyRegistry
    /\ context = [no_version |-> FALSE, exit_code |-> Some(0), shell |-> "None",
                  detection |-> {}]
    /\ no_color = TRUE
    /\ rpc = "call"
    /\ path = "none"
    /\ slots = <<>>
    /\ dynamic_indices = <<>>
    /\ pending = {}
    /\ running = {}
    /\ errs = {}
    /\ finished = <<>>
    /\ writes = <<>>
    /\ taken = <<>>
    /\ panicked = FALSE
    /\ output = <<>>
    /\ next = 1
    /\ result = Nothing
    /\ calls = 0
    /\ stdout = <<>>
    /\ exit_status = "running"
    /\ events = <<>>
    /\ env \in Environments
    /\ statics = InitialStatics
    /\ renders = 0
    /\ threads = <<>>
    /\ walk = <<>>

processIdle == <<mode, pos, starts, ppc, fields, entry, fs, no_color, slotVars, poolVars,
                 next, calls, mainVars, env, walk>>

Thread(pc, value) == [pc |-> pc, value |-> value]

\* execute_with_shell up to the evaluation of the placeholders: the registry,
\* the detection, the choice of the strategy and, for two placeholders or
\* more, ensure_thread_pool
ProcessRender ==
    /\ mode = "process" /\ rpc = "call"
    /\ renders < MaxRenders
    /\ renders' = renders + 1
    /\ \E template \in ProcessTemplates, nv \in BOOLEAN :
          /\ bytes' = template
          /\ tokens' = parse(template)
          /\ \E built \in {build_registry(parse(template))} :
                /\ registry' = built.value
                /\ context' = [context EXCEPT
                                 !.no_version = nv,
                                 !.detection = detect(required_markers(built.value), fs)]
    /\ path' = IF UsesSequential(count_placeholders(tokens')) THEN "sequential"
               ELSE "parallel"
    /\ statics' = IF path' = "parallel" THEN ensure_thread_pool(statics, env.cpus)
                  ELSE statics
    /\ events' = IF statics'.pool /= statics.pool
                 THEN Append(events, Event("build_global", path'))
                 ELSE events
    /\ threads' = [k \in 1..Len(tokens') |->
                     IF tokens'[k].kind = "Text" THEN Thread("done", Ok(Some(tokens'[k].text)))
                     ELSE Thread("start", Ok(Nothing))]
    /\ output' = <<>>
    /\ result' = Nothing
    /\ rpc' = "running"
    /\ UNCHANGED processIdle

\* the thread of placeholder k is at `pc` in the render of provider `module`
At_(k, module, pc) ==
    /\ mode = "process" /\ rpc = "running"
    /\ k \in 1..Len(tokens)
    /\ tokens[k].kind = "Placeholder"
    /\ registry_get(registry, tokens[k].params.module) = Some(module)
    /\ threads[k].pc = pc

\* a provider that touches no static: its render is one step
PureRender(k) ==
    /\ At_(k, "OkModule", "start")
    /\ threads' = [threads EXCEPT
                     ![k] = Thread("done", Module_render("OkModule", tokens[k].params.format,
                                                         context))]
    /\ UNCHANGED <<processIdle, bytes, tokens, registry, context, rpc, path, output, result,
                   events, statics, renders>>

\* GoModule::render up to and including the slot.get() of memoized_version
GoStart(k) ==
    /\ At_(k, "GoModule", "start")
    /\ \E before \in {GoModule_before_memo(tokens[k].params.format, context)} :
          IF before.returns
          THEN /\ threads' = [threads EXCEPT ![k] = Thread("done", before.value)]
               /\ UNCHANGED events
          ELSE \E value \in {OnceLock_get(statics.GO_VERSION)} :
                  IF value.some
                  THEN /\ threads' = [threads EXCEPT
                                        ![k] = Thread("done",
                                                      GoModule_after_memo(value.value,
                                                                          before.value.value))]
                       /\ events' = Append(events, Event("memoized_version", "cached"))
                  ELSE /\ threads' = [threads EXCEPT ![k] = Thread("fetch", Ok(Nothing))]
                       /\ UNCHANGED events
    /\ UNCHANGED <<processIdle, bytes, tokens, registry, context, rpc, path, output, result,
                   statics, renders>>

\* memoized_version from the call of fetch on, and the rest of GoModule::render
GoFetch(k) ==
    /\ At_(k, "GoModule", "fetch")
    /\ \E value \in FetchResults :
          /\ statics' = [statics EXCEPT !.GO_VERSION = OnceLock_set(@, value)]
          /\ threads' = [threads EXCEPT
                           ![k] = Thread("done",
                                         GoModule_after_memo(
                                             value,
                                             validate_version_format(tokens[k].params.format,
                                                                     s_go).value))]
    /\ events' = Append(events, Event("fetch", "go"))
    /\ UNCHANGED <<processIdle, bytes, tokens, registry, context, rpc, path, output, result,
                   renders>>

\* GitModule::render up to and including GIT_MEMO.get
GitStart(k) ==
    /\ At_(k, "GitModule", "start")
    /\ \E before \in {GitModule_before_memo(tokens[k].params.format, context)} :
          IF before.returns
          THEN threads' = [threads EXCEPT ![k] = Thread("done", before.value)]
          ELSE IF statics.GIT_MEMO.some
          THEN threads' = [threads EXCEPT
                             ![k] = Thread("done", GitResult(before.value.value.mode,
                                                             statics.GIT_MEMO.value))]
          ELSE threads' = [threads EXCEPT ![k] = Thread("status", Ok(Nothing))]
    /\ UNCHANGED <<processIdle, bytes, tokens, registry, context, rpc, path, output, result,
                   events, statics, renders>>

\* GitModule::render from branch_and_status on: the status is read through
\* rayon::join when the mode needs it, and the result is put into GIT_MEMO
GitFetch(k) ==
    /\ At_(k, "GitModule", "status")
    /\ LET format == parse_git_format(tokens[k].params.format).value
           need_status == format.mode = "Full"
           read == branch_and_status(env.repo, need_status)
           info == GitInfo(read.branch, read.status)
           pool == IF need_status THEN join(statics.pool, env.cpus) ELSE statics.pool
       IN  /\ statics' = [statics EXCEPT !.pool = pool, !.GIT_MEMO = Some(info)]
           /\ events' = events
                  \o (IF pool /= statics.pool THEN <<Event("implicit_pool", path)>> ELSE <<>>)
                  \o (IF need_status THEN <<Event("join", path)>> ELSE <<>>)
           /\ threads' = [threads EXCEPT ![k] = Thread("done", GitResult(format.mode, info))]
    /\ UNCHANGED <<processIdle, bytes, tokens, registry, context, rpc, path, output, result,
                   renders>>

\* the output of a finished render: the values in token order
RECURSIVE Assembled(_, _)
Assembled(ths, k) ==
    IF k > Len(ths) THEN <<>>
    ELSE (IF ths[k].value.ok /\ ths[k].value.value.some THEN ths[k].value.value.value
          ELSE <<>>) \o Assembled(ths, k + 1)

\* every placeholder has its value: the render returns
ProcessReturn ==
    /\ mode = "process" /\ rpc = "running"
    /\ \A k \in 1..Len(threads) : threads[k].pc = "done"
    /\ IF \E k \in 1..Len(threads) : ~threads[k].value.ok
       THEN /\ \E k \in 1..Len(threads) : ~threads[k].value.ok /\ result' = threads[k].value
            /\ UNCHANGED output
       ELSE /\ output' = Assembled(threads, 1)
            /\ result' = Ok(output')
    /\ rpc' = "call"
    /\ UNCHANGED <<processIdle, bytes, tokens, registry, context, path, events, statics,
                   renders, threads>>

ProcessNext ==
    \/ ProcessRender
    \/ \E k \in 1..Len(tokens) : PureRender(k)
    \/ \E k \in 1..Len(tokens) : GoStart(k)
    \/ \E k \in 1..Len(tokens) : GoFetch(k)
    \/ \E k \in 1..Len(tokens) : GitStart(k)
    \/ \E k \in 1..Len(tokens) : GitFetch(k)
    \/ ProcessReturn

ProcessSpec == ProcessInit /\ [][ProcessNext]_vars

----------------------------------------------------------------------------
(* registry.rs: a registry built by a sequence of register calls *)

MaxRegisters == 4

RegistryNames == {s_ok, s_go}

Providers == {"OkModule", "GoModule", "GitModule"}

\* ModuleRegistry::new
RegistryInit ==
    /\ RenderIdle
    /\ mode = "registry"
    /\ bytes = <<>>
    /\ pos = 0
    /\ tokens = <<>>
    /\ starts = <<>>
    /\ ppc = "idle"
    /\ fields = <<>>

\* registry.register(name, module); the call is noted in events
Register ==
    /\ mode = "registry"
    /\ Len(events) < MaxRegisters
    /\ \E name \in RegistryNames, module \in Providers :
          /\ registry' = register(registry, name, module)
          /\ events' = Append(events, Event("register", [name |-> name, module |-> module]))
    /\ UNCHANGED <<pvars, entry, fs, context, no_color, rpc, path, slotVars, poolVars,
                   output, next, result, calls, mainVars, procVars>>

RegistryNext == Register

RegistrySpec == RegistryInit /\ [][RegistryNext]_vars

----------------------------------------------------------------------------
(* detector.rs: the walk of detect from the current directory to the root. *)
(* Directories are numbered by their distance from the current directory.  *)

MAX_TRAVERSAL_DEPTH == 64

DetectMarkers == {".git", "Cargo.toml"}

\* how many directories lie on the way from the current directory to the
\* root, both included; 0 when env::current_dir() fails
DirectoryCounts == {0, 1, 3, MAX_TRAVERSAL_DEPTH + 1, MAX_TRAVERSAL_DEPTH + 3}

\* the directories that may hold a marker
MarkerLevels == {0, 2, MAX_TRAVERSAL_DEPTH, MAX_TRAVERSAL_DEPTH + 1}

\* candidate: current_dir joined with the marker's name
Candidate(dir, marker) == [dir |-> dir, name |-> marker]

\* candidate.try_exists() is Ok(true)
try_exists(w, marker) == w.current_dir \in w.at[marker]

\* a slip: a marker found again farther up replaces the nearer one
examine_Overwrites(w) ==
    LET here == {m \in w.required : try_exists(w, m)}
    IN  [m \in DOMAIN w.found \cup here |->
            IF m \in here THEN Candidate(w.current_dir, m) ELSE w.found[m]]

\* the loop over the required markers in one directory: `found` after it
examine(w) ==
    LET here == {m \in w.required : m \notin DOMAIN w.found /\ try_exists(w, m)}
    IN  [m \in DOMAIN w.found \cup here |->
            IF m \in DOMAIN w.found THEN w.found[m] ELSE Candidate(w.current_dir, m)]

\* current_dir.pop(): false in the root
pop(w) == w.current_dir + 1 < w.dirs

DetectInit ==
    /\ mode = "detect"
    /\ bytes = <<>>
    /\ pos = 0
    /\ tokens = <<>>
    /\ starts = <<>>
    /\ ppc = "idle"
    /\ fields = <<>>
    /\ entry = "detect"
    /\ fs = {}
    /\ registry = <<>>
    /\ context = <<>>
    /\ no_color = FALSE
    /\ rpc = "idle"
    /\ path = "none"
    /\ slots = <<>>
    /\ dynamic_indices = <<>>
    /\ pending = {}
    /\ running = {}
    /\ errs = {}
    /\ finished = <<>>
    /\ writes = <<>>
    /\ taken = <<>>
    /\ panicked = FALSE
    /\ output = <<>>
    /\ next = 1
    /\ result = Nothing
    /\ calls = 0
    /\ stdout = <<>>
    /\ exit_status = "running"
    /\ events = <<>>
    /\ env = <<>>
    /\ statics = <<>>
    /\ renders = 0
    /\ threads = <<>>
    /\ \E required \in SUBSET DetectMarkers, dirs \in DirectoryCounts :
          \E at \in [DetectMarkers -> SUBSET {l \in MarkerLevels : l < dirs}] :
             walk = [pc |-> "call", required |-> required, dirs |-> dirs, at |-> at,
                     current_dir |-> 0, depth |-> 0, found |-> [m \in {} |-> 0]]

\* detect up to its loop: nothing is looked up when no marker is required or
\* the current directory cannot be read
DetectCall ==
    /\ mode = "detect"
    /\ walk.pc = "call"
    /\ walk' = [walk EXCEPT !.pc = IF walk.required = {} \/ walk.dirs = 0
                                   THEN "returned" ELSE "loop"]
    /\ UNCHANGED <<pvars, rvars, env, statics, renders, threads>>

\* one iteration of the loop of detect
DetectIteration ==
    /\ mode = "detect"
    /\ walk.pc = "loop"
    /\ \E found \in {examine(walk)} :
          walk' = IF \/ Cardinality(DOMAIN found) = Cardinality(walk.required)
                     \/ walk.depth >= MAX_TRAVERSAL_DEPTH
                     \/ ~pop(walk)
                  THEN [walk EXCEPT !.found = found, !.pc = "returned"]
                  ELSE [walk EXCEPT !.found = found, !.current_dir = @ + 1,
                                    !.depth = @ + 1]
    /\ UNCHANGED <<pvars, rvars, env, statics, renders, threads>>

DetectNext == DetectCall \/ DetectIteration

DetectSpec == DetectInit /\ [][DetectNext]_vars

----------------------------------------------------------------------------
(* AnsiStyle::parse on a style field, and the style applied to a text *)

StyleTokens ==
    { <<>>, <<"b","o","l","d">>, <<"r","e","d">>, Magenta, <<"z","z">>,
      <<"#","0","0","f","f","0","0">>, <<"#","z","z">>, <<"#">> }

\* a token, or two tokens around a plus sign
StyleComponents == StyleTokens \cup {fg \o <<"+">> \o bg : fg, bg \in StyleTokens}

\* one component, or two around a dot
StyleStrings == StyleComponents \cup {a \o <<".">> \o b : a, b \in StyleComponents}

StyleInit ==
    /\ RenderIdle
    /\ mode = "style"
    /\ bytes \in StyleStrings
    /\ pos = 0
    /\ tokens = <<>>
    /\ starts = <<>>
    /\ ppc = "call"
    /\ fields = <<>>

\* AnsiStyle::parse(style_str)
StyleParse ==
    /\ mode = "style"
    /\ ppc = "call"
    /\ result' = AnsiStyle_parse(bytes)
    /\ ppc' = "parsed"
    /\ UNCHANGED <<mode, bytes, pos, tokens, starts, fields, entry, fs, registry, context,
                   no_color, rpc, path, slotVars, poolVars, output, next, calls, mainVars,
                   events, procVars>>

\* style.apply(text) with the parsed style
StyleApply ==
    /\ mode = "style"
    /\ ppc = "parsed"
    /\ result.ok
    /\ output' = apply_with_shell(result.value, <<"a">>, "None")
    /\ ppc' = "applied"
    /\ UNCHANGED <<mode, bytes, pos, tokens, starts, fields, entry, fs, registry, context,
                   no_color, rpc, path, slotVars, poolVars, next, result, calls, mainVars,
                   events, procVars>>

StyleNext == StyleParse \/ StyleApply

StyleSpec == StyleInit /\ [][StyleNext]_vars

----------------------------------------------------------------------------
(* template.rs: a template parsed once and rendered several times *)

\* Template::new: the tokens of the compiled template
Template_new(template) == parse(template)

\* the loop of Template::render from token k on. The provider's result is
\* matched against Some(text): anything else contributes nothing.
RECURSIVE TemplateLoop(_, _, _, _, _, _)
TemplateLoop(toks, k, reg, ctx, plain, out) ==
    IF k > Len(toks) THEN Ok(out)
    ELSE IF toks[k].kind = "Text"
    THEN TemplateLoop(toks, k + 1, reg, ctx, plain, out \o toks[k].text)
    ELSE LET params == toks[k].params
             module == registry_get(reg, params.module)
         IN  IF ~module.some THEN Err(UnknownModule(params.module))
             ELSE LET r == Module_render(module.value, params.format, ctx)
                  IN  IF ~(r.ok /\ r.value.some /\ r.value.value /= <<>>)
                      THEN TemplateLoop(toks, k + 1, reg, ctx, plain, out)
                      ELSE IF params.style /= <<>> /\ ~plain
                      THEN LET style == AnsiStyle_parse(params.style)
                           IN  IF ~style.ok THEN Err(StyleError(params.module, style.error))
                               ELSE TemplateLoop(
                                        toks, k + 1, reg, ctx, plain,
                                        out \o params.prefix
                                            \o apply_with_shell(style.value, r.value.value,
                                                                "None")
                                            \o params.suffix)
                      ELSE TemplateLoop(toks, k + 1, reg, ctx, plain,
                                        out \o params.prefix \o r.value.value
                                            \o params.suffix)

\* Template::render; `plain` is what it reads from NO_COLOR and the terminal
Template_render(toks, reg, ctx, plain) == TemplateLoop(toks, 1, reg, ctx, plain, <<>>)

TemplateInit ==
    /\ mode = "render"
    /\ bytes \in Templates
    /\ pos = 0
    /\ tokens = <<>>
    /\ starts = <<>>
    /\ ppc = "idle"
    /\ fields = <<>>
    /\ entry = "Template::render"
    /\ fs \in SUBSET Markers
    /\ registry = FullRegistry
    /\ \E nv \in BOOLEAN, ec \in ExitCodes, sh \in Shells :
          context = [no_version |-> nv, exit_code |-> ec, shell |-> sh, detection |-> fs]
    /\ no_color \in BOOLEAN
    /\ rpc = "call"
    /\ path = "none"
    /\ slots = <<>>
    /\ dynamic_indices = <<>>
    /\ pending = {}
    /\ running = {}
    /\ errs = {}
    /\ finished = <<>>
    /\ writes = <<>>
    /\ taken = <<>>
    /\ panicked = FALSE
    /\ output = <<>>
    /\ next = 1
    /\ result = Nothing
    /\ calls = 0
    /\ stdout = <<>>
    /\ exit_status = "running"
    /\ events = <<>>
    /\ env = <<>>
    /\ statics = <<>>
    /\ renders = 0
    /\ threads = <<>>
    /\ walk = <<>>

\* Template::new
TemplateNew ==
    /\ mode = "render" /\ entry = "Template::render" /\ rpc = "call"
    /\ tokens' = Template_new(bytes)
    /\ rpc' = "compiled"
    /\ UNCHANGED <<parserIdle, entry, fs, registry, context, no_color, path, slotVars,
                   poolVars, output, next, result, calls, mainVars, events, procVars>>

\* one more Template::render of the compiled template, in a context with the
\* exit code of the latest command
TemplateRender ==
    /\ mode = "render" /\ entry = "Template::render" /\ rpc \in {"compiled", "returned"}
    /\ renders < MaxRenders
    /\ renders' = renders + 1
    /\ \E ec \in ExitCodes :
          /\ context' = [context EXCEPT !.exit_code = ec]
          /\ \E r \in {Template_render(tokens, registry, context', no_color)} :
                /\ result' = r
                /\ output' = IF r.ok THEN r.value ELSE <<>>
    /\ rpc' = "returned"
    /\ path' = "sequential"
    /\ UNCHANGED <<pvars, entry, fs, registry, no_color, slotVars, poolVars, next, calls,
                   mainVars, events, env, statics, threads, walk>>

TemplateNext == TemplateNew \/ TemplateRender

TemplateSpec == TemplateInit /\ [][TemplateNext]_vars

----------------------------------------------------------------------------
(* Claims about the renderer *)

\* the call has returned to its caller
Returned == mode = "render" /\ rpc \in {"returned", "exited"}

PlaceholderIndices == {k \in 1..Len(tokens) : tokens[k].kind = "Placeholder"}

\* the placeholder at token k names a module the call has no provider for
Unregistered(k) ==
    IF entry = "main" THEN ~instantiate_module(tokens[k].params.module).some
    ELSE tokens[k].params.module \notin DOMAIN registry

ProviderOf(k) ==
    IF entry = "main" THEN instantiate_module(tokens[k].params.module).value
    ELSE registry[tokens[k].params.module].module

\* what the provider of the placeholder at token k returns in the call's context
ProviderResult(k) == Module_render(ProviderOf(k), tokens[k].params.format, context)

ProviderFails(k) == ~Unregistered(k) /\ ~ProviderResult(k).ok

\* the provider yields a value, which may be empty
Yields(k) == ~Unregistered(k) /\ ProviderResult(k).ok /\ ProviderResult(k).value.some

\* the value, the prefix and the suffix are all empty
Bare(k) ==
    /\ ProviderResult(k).value.value = <<>>
    /\ tokens[k].params.prefix = <<>>
    /\ tokens[k].params.suffix = <<>>

StyleApplies(k) == tokens[k].params.style /= <<>> /\ ~no_color

\* the segment of the placeholder at token k is styled, and its style does not parse
StyleFails(k) ==
    /\ Yields(k) /\ ~Bare(k) /\ StyleApplies(k)
    /\ ~AnsiStyle_parse(tokens[k].params.style).ok

Fails(k) == Unregistered(k) \/ ProviderFails(k) \/ StyleFails(k)

Failing == {k \in PlaceholderIndices : Fails(k)}

StyleFailing == {k \in PlaceholderIndices : StyleFails(k)}

StyleErrorOf(k) ==
    StyleError(tokens[k].params.module, AnsiStyle_parse(tokens[k].params.style).error)

FailureOf(k) ==
    IF Unregistered(k) THEN UnknownModule(tokens[k].params.module)
    ELSE IF ProviderFails(k) THEN ProviderResult(k).error
    ELSE StyleErrorOf(k)

\* a segment in the style's escape codes when a style applies
Wrapped(k, segment) ==
    IF StyleApplies(k)
    THEN apply_with_shell(AnsiStyle_parse(tokens[k].params.style).value, segment,
                          context.shell)
    ELSE segment

\* what the slot at position k holds for the output
SlotContribution(k) ==
    IF slots[k].kind = "Static" THEN slots[k].text
    ELSE IF slots[k].output.some /\ slots[k].output.value.some
    THEN slots[k].output.value.value
    ELSE <<>>

SlotsUpTo(n) == Flatten([k \in 1..n |-> SlotContribution(k)])

DynamicSlots == {k \in 1..Len(slots) : slots[k].kind = "Dynamic"}

\* the workers finished in another order than the order of their slots
OutOfOrder ==
    \E a, b \in 1..Len(finished) : a < b /\ finished[a] > finished[b]

\* C1: on the same tokens, registry and context, render_tokens_parallel
\* succeeds exactly when render_tokens_sequential does, and then both return
\* the same bytes.
C1_SequentialParallelAgree ==
    (Returned /\ path = "parallel") =>
        LET seq == render_tokens_sequential(tokens, registry, context, no_color).result
        IN  /\ result.ok <=> seq.ok
            /\ result.ok => result.value = seq.value

C1_Witness ==
    /\ Returned /\ path = "parallel" /\ result.ok
    /\ Cardinality(DynamicSlots) >= 2
    /\ OutOfOrder
    /\ \E k \in DynamicSlots : Len(SlotContribution(k)) > 1

\* C2: in the parallel path, whatever the order the workers finished in, the
\* bytes assembled so far are the contributions of the slots visited, in slot
\* order, and the string returned is the contributions of all slots in token
\* order.
C2_OutputInTokenOrder ==
    /\ (mode = "render" /\ rpc = "assemble") => output = SlotsUpTo(next - 1)
    /\ (Returned /\ path = "parallel" /\ result.ok) =>
           /\ Len(slots) = Len(tokens)
           /\ result.value = SlotsUpTo(Len(slots))

C2_Witness ==
    /\ Returned /\ path = "parallel" /\ result.ok
    /\ OutOfOrder
    /\ \E i, j \in DynamicSlots :
          /\ i < j
          /\ SlotContribution(i) /= <<>>
          /\ SlotContribution(j) /= <<>>
          /\ SlotContribution(i) /= SlotContribution(j)

\* C3: no cell is written twice and no write panics; when assembly starts each
\* dynamic slot's cell has been written exactly once, on the inline path and
\* on the pool path; no cell is consumed twice, and when the assembled string
\* is returned each cell has been consumed exactly once.
C3_CellsWrittenAndTakenOnce ==
    /\ ~panicked
    /\ \A k \in 1..Len(writes) : writes[k] <= 1 /\ taken[k] <= 1
    /\ (mode = "render" /\ rpc = "assemble") =>
           \A k \in DynamicSlots : writes[k] = 1 /\ slots[k].output.some
    /\ (Returned /\ path = "parallel" /\ result.ok) =>
           \A k \in DynamicSlots : writes[k] = 1 /\ taken[k] = 1

C3_Witness ==
    /\ Returned /\ path = "parallel" /\ result.ok
    /\ Cardinality(DynamicSlots) >= 2
    /\ Len(finished) = Cardinality(DynamicSlots)
    /\ \A k \in DynamicSlots : writes[k] = 1 /\ taken[k] = 1

\* the bytes the placeholder at token k contributes: nothing when its provider
\* yields no value, or an empty value with empty prefix and suffix
Contribution(k) ==
    IF ~Yields(k) \/ Bare(k) THEN <<>>
    ELSE Wrapped(k, tokens[k].params.prefix \o ProviderResult(k).value.value
                    \o tokens[k].params.suffix)

\* the contribution with a non-empty prefix or suffix kept when the provider
\* yields no value
AffixedContribution(k) ==
    LET value == IF Yields(k) THEN ProviderResult(k).value.value ELSE <<>>
    IN  IF /\ value = <<>>
           /\ tokens[k].params.prefix = <<>>
           /\ tokens[k].params.suffix = <<>>
        THEN <<>>
        ELSE Wrapped(k, tokens[k].params.prefix \o value \o tokens[k].params.suffix)

\* the output made of the texts and of F(k) for the placeholder at token k
OutputOf(F(_)) ==
    Flatten([k \in 1..Len(tokens) |-> IF tokens[k].kind = "Text" THEN tokens[k].text
                                      ELSE F(k)])

\* C4 as stated: a placeholder contributes prefix+value+suffix as soon as its
\* prefix or suffix is non-empty, also when its provider yields no value.
C4_AffixesAlwaysContribute ==
    (Returned /\ result.ok) => result.value = OutputOf(AffixedContribution)

\* C4: in a render that succeeds, a placeholder whose provider yields no
\* value, or an empty value with empty prefix and suffix, contributes zero
\* bytes; any other placeholder contributes prefix+value+suffix, wrapped in
\* the style's escape codes when its style is non-empty and colour is enabled.
C4_PlaceholderContribution ==
    (Returned /\ result.ok) => result.value = OutputOf(Contribution)

C4_Witness ==
    /\ Returned /\ result.ok
    /\ \E k \in PlaceholderIndices :
          /\ Yields(k) /\ ProviderResult(k).value.value = <<>>
          /\ tokens[k].params.prefix /= <<>>
    /\ \E k \in PlaceholderIndices :
          /\ Yields(k) /\ ProviderResult(k).value.value /= <<>>
          /\ StyleApplies(k)
          /\ Len(Contribution(k)) > Len(tokens[k].params.prefix)
                                    + Len(ProviderResult(k).value.value)
                                    + Len(tokens[k].params.suffix)

\* the first placeholder, in token order, that names an unregistered module
FirstUnregistered ==
    CHOOSE k \in PlaceholderIndices :
        /\ Unregistered(k)
        /\ \A j \in PlaceholderIndices : j < k => ~Unregistered(j)

\* C5: when a placeholder names a module with no registered provider, execute
\* and render_template return UnknownModule with that name, and no provider
\* has rendered in the call.
C5_UnknownModuleBeforeRendering ==
    (/\ Returned
     /\ entry \in {"main", "render_template"}
     /\ \E k \in PlaceholderIndices : Unregistered(k)) =>
        /\ result = Err(UnknownModule(tokens[FirstUnregistered].params.module))
        /\ calls = 0

C5_Witness ==
    /\ Returned
    /\ entry = "render_template"
    /\ Len(tokens) = 2
    /\ tokens[1].kind = "Placeholder" /\ Yields(1)
    /\ tokens[2].kind = "Placeholder" /\ Unregistered(2)
    /\ ~result.ok /\ result.error.kind = "UnknownModule"

\* the placeholder at token k has a style that does not parse
BadStyle(k) ==
    tokens[k].params.style /= <<>> /\ ~AnsiStyle_parse(tokens[k].params.style).ok

\* C6 as stated: a style that does not parse aborts the render with
\* StyleError, in a template where nothing else fails.
C6_BadStyleAlwaysAborts ==
    (/\ Returned
     /\ \A k \in PlaceholderIndices : ~Unregistered(k) /\ ~ProviderFails(k)
     /\ \E k \in PlaceholderIndices : BadStyle(k)) =>
        \E k \in PlaceholderIndices : BadStyle(k) /\ result = Err(StyleErrorOf(k))

\* C6: when a placeholder whose style does not parse is styled (its provider
\* yields a value, the value, prefix and suffix are not all empty, and colour
\* is enabled) the render aborts with the error of a failing placeholder; if
\* only styles fail, it is StyleError with the module name and the parser's
\* message of one of them.
C6_StyledBadStyleAborts ==
    (Returned /\ StyleFailing /= {}) =>
        /\ \E k \in Failing : result = Err(FailureOf(k))
        /\ Failing = StyleFailing =>
               \E k \in StyleFailing : result = Err(StyleErrorOf(k))

C6_Witness ==
    /\ Returned
    /\ Failing /= {} /\ Failing = StyleFailing
    /\ \E k \in StyleFailing :
          /\ result = Err(StyleError(s_fail, UnknownStyleComponent(<<"z", "z">>)))
          /\ tokens[k].params.module = s_fail

\* C7: when the evaluation of a placeholder fails, the render returns the
\* error of a failing placeholder and nothing else, and main, once it has
\* matched on the result, has written nothing to stdout and exits with failure.
C7_FailureReturnsOnlyError ==
    (Returned /\ Failing /= {}) =>
        /\ \E k \in Failing : result = Err(FailureOf(k))
        /\ rpc = "exited" => stdout = <<>> /\ exit_status = "FAILURE"

C7_Witness ==
    /\ mode = "render" /\ rpc = "exited" /\ entry = "main"
    /\ exit_status = "FAILURE" /\ stdout = <<>>
    /\ Len(tokens) = 2
    /\ tokens[1].kind = "Placeholder" /\ ~Fails(1) /\ Contribution(1) /= <<>>
    /\ tokens[2].kind = "Placeholder" /\ (ProviderFails(2) \/ StyleFails(2))

----------------------------------------------------------------------------
(* Claims about the parser *)

NoByteOf(s, set) == \A k \in 1..Len(s) : s[k] \notin set

\* the number of backslashes that end right before position j, not
\* counting any at or before position i
RECURSIVE BackslashRun(_, _, _)
BackslashRun(s, i, j) ==
    IF j - 1 > i /\ At(s, j - 1) = "\\" THEN 1 + BackslashRun(s, i, j - 1) ELSE 0

\* the closing braces after the `{` at i that no backslash escapes
UnescapedCloses(s, i) ==
    {j \in (i + 1)..(Len(s) - 1) : At(s, j) = "}" /\ BackslashRun(s, i, j) % 2 = 0}

FirstClose(s, i) == CHOOSE j \in UnescapedCloses(s, i) : \A k \in UnescapedCloses(s, i) : j <= k

\* the `{` at i is closed and the module field of its body is empty
EmptyModuleAt(s, i) ==
    /\ UnescapedCloses(s, i) /= {}
    /\ (FirstClose(s, i) = i + 1 \/ At(s, i + 1) = ":")

TokenEnd(k) == IF k < Len(tokens) THEN starts[k + 1] ELSE pos

RECURSIVE TextOf(_)
TextOf(toks) ==
    IF toks = <<>> THEN <<>>
    ELSE (IF Head(toks).kind = "Text" THEN Head(toks).text ELSE <<>>) \o TextOf(Tail(toks))

UnreadableBraceAt(k) ==
    /\ At(bytes, starts[k]) = "{"
    /\ (UnescapedCloses(bytes, starts[k]) = {} \/ EmptyModuleAt(bytes, starts[k]))

\* C8: a `{` the scanner meets that has no later unescaped `}`, or whose body
\* has an empty module field, becomes the Text token "{" and the scan resumes
\* one byte later; no Placeholder token has an empty module; and a scan that
\* decodes nothing and reads no placeholder returns the input byte for byte.
C8_UnreadableBraceIsLiteral ==
    /\ \A k \in 1..Len(tokens) :
          /\ tokens[k].kind = "Placeholder" => tokens[k].params.module /= <<>>
          /\ UnreadableBraceAt(k) =>
                /\ tokens[k].kind = "Text"
                /\ tokens[k].text = <<"{">>
                /\ TokenEnd(k) = starts[k] + 1
    /\ (/\ ppc = "done"
        /\ NoByteOf(bytes, {"\\"})
        /\ \A k \in 1..Len(tokens) : tokens[k].kind = "Text")
       => TextOf(tokens) = bytes

\* a finished scan that met an unclosed `{` and a `{` with an empty module
C8_Witness ==
    /\ mode = "parse"
    /\ ppc = "done"
    /\ \E k \in 1..Len(tokens) :
          /\ At(bytes, starts[k]) = "{"
          /\ UnescapedCloses(bytes, starts[k]) = {}
    /\ \E k \in 1..Len(tokens) :
          /\ At(bytes, starts[k]) = "{"
          /\ EmptyModuleAt(bytes, starts[k])
          /\ FirstClose(bytes, starts[k]) > starts[k] + 1

\* C9 as stated: a template without `{` parses to exactly one Text token
\* equal to the input.
C9_NoBraceOneToken ==
    (ppc = "done" /\ NoByteOf(bytes, {"{"})) => tokens = <<Text(bytes)>>

\* C9: a non-empty template holding none of `{`, `}` and `\` parses to
\* exactly one Text token equal to the input.
C9_PlainTextOneToken ==
    (ppc = "done" /\ bytes /= <<>> /\ NoByteOf(bytes, {"{", "}", "\\"}))
        => tokens = <<Text(bytes)>>

C9_Witness ==
    /\ mode = "parse"
    /\ ppc = "done"
    /\ Len(bytes) >= 3
    /\ NoByteOf(bytes, {"{", "}", "\\"})
    /\ \E k \in 1..Len(bytes) : bytes[k] = ":"
    /\ Len(tokens) = 1

\* C10: the placeholder written from the fields m (non-empty), s, f, p, q,
\* each escaped, parses to the single Placeholder token with exactly these
\* five field values.
C10_FieldsRoundTrip ==
    (mode = "fields" /\ ppc = "done") =>
        tokens = <<Placeholder([module |-> fields[1], style |-> fields[2],
                                format |-> fields[3], prefix |-> fields[4],
                                suffix |-> fields[5]])>>

\* a round trip whose fields hold a colon and a backslash
C10_Witness ==
    /\ mode = "fields"
    /\ ppc = "done"
    /\ Len(tokens) = 1
    /\ tokens[1].kind = "Placeholder"
    /\ \E i \in 1..4 : \E k \in 1..Len(fields[i]) : fields[i][k] = ":"
    /\ \E i \in 1..5 : \E k \in 1..Len(fields[i]) : fields[i][k] = "\\"

\* the bytes a backslash turns into a literal, and the literal of each
EscapeLiterals ==
    [c \in {"{", "}", "\\", "n", "t", ":"} |->
        CASE c = "n" -> "\n" [] c = "t" -> "\t" [] OTHER -> c]

\* a raw text with each of the six escapes replaced by its literal and every
\* other backslash kept together with the byte after it
RECURSIVE Decoded(_)
Decoded(r) ==
    IF r = <<>> THEN <<>>
    ELSE IF Head(r) /= "\\" THEN <<Head(r)>> \o Decoded(Tail(r))
    ELSE IF Len(r) = 1 THEN <<"\\">>
    ELSE IF r[2] \in DOMAIN EscapeLiterals
    THEN <<EscapeLiterals[r[2]]>> \o Decoded(SubSeq(r, 3, Len(r)))
    ELSE <<"\\", r[2]>> \o Decoded(SubSeq(r, 3, Len(r)))

\* the colons no backslash escapes in the body between the `{` at i and the `}` at e
BodyColons(s, i, e) ==
    {j \in (i + 1)..(e - 1) : At(s, j) = ":" /\ BackslashRun(s, i, j) % 2 = 0}

\* where the n-th field of that body ends: at the n-th such colon, or at e
\* for the fifth field and when there is no n-th colon
FieldCut(s, i, e, n) ==
    IF n = 0 THEN i
    ELSE IF n = 5 \/ Cardinality(BodyColons(s, i, e)) < n THEN e
    ELSE CHOOSE j \in BodyColons(s, i, e) :
             Cardinality({k \in BodyColons(s, i, e) : k < j}) = n - 1

\* the n-th field of the body as it is written
RawField(s, i, e, n) ==
    IF Cardinality(BodyColons(s, i, e)) < n - 1 THEN <<>>
    ELSE Slice(s, FieldCut(s, i, e, n - 1) + 1, FieldCut(s, i, e, n))

RealParams ==
    [module |-> <<"r", "e", "a", "l">>, style |-> <<>>, format |-> <<>>,
     prefix |-> <<>>, suffix |-> <<>>]

\* C12 as stated: \{escaped\} {real} parses to four tokens, the third being
\* the text "} ".
C12_FourTokens ==
    (ppc = "done" /\ bytes = EscapedExample) =>
        tokens = <<Text(<<"{">>), Text(<<"e", "s", "c", "a", "p", "e", "d">>),
                   Text(<<"}", " ">>), Placeholder(RealParams)>>

\* C12: \{escaped\} {real} parses to exactly five tokens in this order: Text
\* "{", Text "escaped", Text "}", Text " ", Placeholder with module "real".
C12_FiveTokens ==
    (ppc = "done" /\ bytes = EscapedExample) =>
        tokens = <<Text(<<"{">>), Text(<<"e", "s", "c", "a", "p", "e", "d">>),
                   Text(<<"}">>), Text(<<" ">>), Placeholder(RealParams)>>

C12_Witness ==
    /\ mode = "parse"
    /\ ppc = "done"
    /\ bytes = EscapedExample
    /\ Len(tokens) = 5
    /\ tokens[5].kind = "Placeholder"

\* the provider of the placeholder at token k returns no value
NoValue(k) == ~Unregistered(k) /\ ProviderResult(k).ok /\ ~ProviderResult(k).value.some

\* the tokens without the one at position k
WithoutToken(k) == SubSeq(tokens, 1, k - 1) \o SubSeq(tokens, k + 1, Len(tokens))

\* C13: when the provider of a placeholder returns no value, the render
\* succeeds exactly when the render of the template without that placeholder
\* does, and returns the same bytes, whatever the placeholder's prefix,
\* suffix and style are.
C13_AbsenceLeavesNoResidue ==
    Returned =>
        \A k \in PlaceholderIndices :
            NoValue(k) =>
                LET without == render_tokens_sequential(WithoutToken(k), registry,
                                                        context, no_color).result
                IN  /\ result.ok <=> without.ok
                    /\ result.ok => result.value = without.value

\* a render that succeeds with text around a placeholder whose provider
\* returns no value and whose prefix is non-empty and style does not parse
C13_Witness ==
    /\ Returned /\ result.ok /\ result.value /= <<>>
    /\ ~no_color
    /\ \E k \in PlaceholderIndices :
          /\ NoValue(k)
          /\ tokens[k].params.prefix /= <<>>
          /\ BadStyle(k)

\* the formats a version provider accepts
VersionFormats == {<<>>, s_full, <<"f">>, s_short, <<"s">>, s_major, <<"m">>}

\* the placeholder at token k names the go provider with a format it does not accept
UnrecognisedFormat(k) ==
    tokens[k].params.module = s_go /\ tokens[k].params.format \notin VersionFormats

\* the go provider reads the format of the placeholder at token k: its marker
\* was detected and versions are not disabled
FormatRead(k) ==
    /\ tokens[k].params.module = s_go
    /\ ~Unregistered(k)
    /\ "go.mod" \in context.detection
    /\ ~context.no_version

InvalidFormatOf(k) ==
    InvalidFormat(tokens[k].params.module, tokens[k].params.format,
                  <<"full, f, short, s, major, m">>)

\* C14 as stated: a format its provider does not recognise aborts the render
\* with InvalidFormat, in a template where nothing else fails.
C14_BadFormatAlwaysAborts ==
    (/\ Returned
     /\ \A k \in PlaceholderIndices : ~Unregistered(k) /\ ~StyleFails(k)
     /\ \E k \in PlaceholderIndices : UnrecognisedFormat(k)) =>
        \E k \in PlaceholderIndices :
            UnrecognisedFormat(k) /\ result = Err(InvalidFormatOf(k))

\* C14: when a provider reads a format it does not recognise (the go provider
\* reads it only when go.mod was detected and versions are not disabled) the
\* render aborts with the error of a failing placeholder; if nothing else
\* fails, it is InvalidFormat with the module name, the rejected format and
\* the list of accepted values.
C14_ReadBadFormatAborts ==
    (/\ Returned
     /\ \E k \in PlaceholderIndices : UnrecognisedFormat(k) /\ FormatRead(k)) =>
        /\ \E k \in Failing : result = Err(FailureOf(k))
        /\ (\A k \in Failing : UnrecognisedFormat(k) /\ FormatRead(k)) =>
               \E k \in Failing : result = Err(InvalidFormatOf(k))

C14_Witness ==
    /\ Returned
    /\ Len(tokens) = 2
    /\ Failing = {2}
    /\ UnrecognisedFormat(2) /\ FormatRead(2)
    /\ result = Err(InvalidFormat(s_go, <<"x">>, <<"full, f, short, s, major, m">>))

----------------------------------------------------------------------------
(* C15: the directory walk of one execute call *)

EventIndices(op) == {i \in 1..Len(events) : events[i].op = op}

\* execute_with_shell has returned to main
Executed == entry = "main" /\ rpc \in {"returned", "exited"}

\* C15: in one execute call the upward directory walk (detect) runs exactly
\* once, after every module name has been resolved into the registry and
\* before any provider's render is invoked, and no provider performs a walk
\* of its own
C15_OneWalkBeforeRenders ==
    Executed =>
        /\ Cardinality(EventIndices("detect")) = 1
        /\ \A d \in EventIndices("detect") :
               /\ \A b \in EventIndices("build_registry") : b < d
               /\ \A r \in EventIndices("render") : d < r
        /\ EventIndices("find_upward") = {}

----------------------------------------------------------------------------
(* C16: the join before assembly *)

\* the indices par_iter was given
Dispatched == {dynamic_indices[k] : k \in 1..Len(dynamic_indices)}

----------------------------------------------------------------------------
(* C17: the worker pool of the process *)

\* the events at which rayon's global pool came into being
PoolBuilds == EventIndices("build_global") \cup EventIndices("implicit_pool")

\* C17: the worker pool is configured at most once per process, with
\* min(available parallelism, 4) threads and at least 1, and only by a render
\* with two placeholders or more; a render with no or one placeholder neither
\* creates nor uses the pool
C17_PoolOnlyForParallelRenders ==
    mode = "process" =>
        /\ Cardinality(PoolBuilds) <= 1
        /\ statics.pool.some =>
              /\ statics.pool.value = Min(available_parallelism_or_1(env.cpus), 4)
              /\ statics.pool.value >= 1
        /\ \A i \in PoolBuilds \cup EventIndices("join") : events[i].arg = "parallel"

----------------------------------------------------------------------------
(* C19: memoized_version *)

\* the thread of placeholder k is about to call memoized_version
CallsMemoizedVersion(k) ==
    /\ At_(k, "GoModule", "start")
    /\ ~GoModule_before_memo(tokens[k].params.format, context).returns

\* C19: once memoized_version has stored a result in a slot, a version or
\* an absence, the slot keeps it, and every call made later returns the
\* stored result without invoking its fetch closure
C19_StoredResultIsReturned ==
    [][statics.GO_VERSION.some =>
          /\ statics'.GO_VERSION = statics.GO_VERSION
          /\ \A k \in 1..Len(tokens) :
                (CallsMemoizedVersion(k) /\ threads' /= threads) =>
                    \/ threads'[k] = threads[k]
                    \/ /\ threads'[k] =
                            Thread("done",
                                   GoModule_after_memo(
                                       statics.GO_VERSION.value,
                                       validate_version_format(tokens[k].params.format,
                                                               s_go).value))
                       /\ EventIndices("fetch")' = EventIndices("fetch")]_vars

\* the first render stored the absence of a version; in the second render,
\* with the toolchain never asked again, the placeholder yields no value
C19_Witness ==
    /\ mode = "process" /\ renders = 2 /\ rpc = "call"
    /\ statics.GO_VERSION = Some(Nothing)
    /\ bytes = <<"{", "g", "o", "}">>
    /\ threads[1] = Thread("done", Ok(Nothing))
    /\ events = <<Event("fetch", "go"), Event("memoized_version", "cached")>>

----------------------------------------------------------------------------
(* C20: the git placeholders of one repository *)

\* token k is a git placeholder in full mode whose value has been computed
FullGitDone(k) ==
    /\ tokens[k].kind = "Placeholder"
    /\ tokens[k].params.module = s_git
    /\ parse_git_format(tokens[k].params.format) = Ok(GitFormat("Full", FALSE))
    /\ threads[k].pc = "done"

\* C20: the value a full-mode git placeholder renders does not depend on
\* whether another git placeholder of the same repository was evaluated before
\* it: it is the branch with the status of the repository, also when a
\* short-mode placeholder was evaluated first, in any order or interleaving
C20_FullGitIndependentOfOrder ==
    mode = "process" =>
        \A k \in 1..Len(threads) :
            FullGitDone(k) =>
                threads[k].value = GitResult("Full", GitInfo(env.repo.branch, env.repo.status))

----------------------------------------------------------------------------
(* C18: the ok and fail indicators *)

IndicatorFormats == {<<>>, s_code, s_full, <<"x">>}

OkFailTemplate == <<"{","o","k",":","}","{","f","a","i","l",":","}">>

FailCodeTemplate == <<"{","f","a","i","l",":",":","c","o","d","e","}">>

\* the decimal text of the failure codes, written out
CodeText(c) ==
    CASE c = 1   -> <<"1">>
      [] c = 130 -> <<"1", "3", "0">>
      [] c = -1  -> <<"-", "1">>

\* C18: for every present exit code c exactly one of ok and fail yields a
\* value, ok when c = 0 and fail when c is not 0, whatever the format; so the
\* template {ok:}{fail:} renders exactly one indicator symbol, and fail with
\* the format "code" yields the decimal text of c
C18_ExactlyOneIndicator ==
    (Executed /\ context.exit_code.some) =>
        LET c == context.exit_code.value
        IN  /\ \A f, g \in IndicatorFormats :
                   /\ OkModule_render(f, context).ok /\ FailModule_render(g, context).ok
                   /\ OkModule_render(f, context).value.some <=> c = 0
                   /\ FailModule_render(g, context).value.some <=> c /= 0
            /\ bytes = OkFailTemplate => result = Ok(Symbol)
            /\ (bytes = FailCodeTemplate /\ c /= 0) => result = Ok(CodeText(c))
            /\ (bytes = FailCodeTemplate /\ c = 0) => result = Ok(<<>>)

\* {ok:}{fail:} was rendered on the pool after a command that exited with 130
C18_Witness ==
    /\ Executed /\ bytes = OkFailTemplate
    /\ context.exit_code = Some(130)
    /\ path = "parallel" /\ Len(finished) = 2
    /\ result = Ok(Symbol)
    /\ stdout = Symbol

----------------------------------------------------------------------------
(* C21: the error of a template with several failing placeholders *)

\* the first failing placeholder in template order
FirstFailing == CHOOSE k \in Failing : \A j \in Failing : k <= j

\* C21: when two or more placeholders of one template fail, the parallel path
\* returns the error of the first failing placeholder in template order, as
\* the sequential path does, for every worker interleaving
C21_FirstFailureInTemplateOrder ==
    (Returned /\ path = "parallel" /\ Cardinality(Failing) >= 2) =>
        /\ result = Err(FailureOf(FirstFailing))
        /\ result = render_tokens_sequential(tokens, registry, context, no_color).result

----------------------------------------------------------------------------
(* C22: concurrent calls of memoized_version *)

\* the thread of placeholder k has returned from memoized_version
ReturnedFromMemoizedVersion(k) ==
    /\ tokens[k].kind = "Placeholder"
    /\ tokens[k].params.module = s_go
    /\ ~GoModule_before_memo(tokens[k].params.format, context).returns
    /\ threads[k].pc = "done"

\* C22: when several workers call memoized_version on the same empty slot
\* concurrently, the fetch closure runs at most once, and every caller returns
\* the value that ends up stored in the slot
C22_ConcurrentCallsFetchOnce ==
    mode = "process" =>
        /\ Cardinality(EventIndices("fetch")) <= 1
        /\ \A k \in 1..Len(threads) :
              ReturnedFromMemoizedVersion(k) =>
                  /\ statics.GO_VERSION.some
                  /\ threads[k].value =
                        GoModule_after_memo(
                            statics.GO_VERSION.value,
                            validate_version_format(tokens[k].params.format, s_go).value)

----------------------------------------------------------------------------
(* C23, C24: Template::render against the executor *)

\* Template::render has returned
TemplateRendered == mode = "render" /\ entry = "Template::render" /\ rpc = "returned"

\* the whole segment of the placeholder at token k, inside the escape codes of
\* its style when a style applies
StyledWhole(k) ==
    IF ~Yields(k) \/ ProviderResult(k).value.value = <<>> THEN <<>>
    ELSE LET segment == tokens[k].params.prefix \o ProviderResult(k).value.value
                            \o tokens[k].params.suffix
         IN  IF StyleApplies(k)
             THEN apply_with_shell(AnsiStyle_parse(tokens[k].params.style).value, segment,
                                   "None")
             ELSE segment

\* C23: prefix and suffix are never emitted outside the styling: whenever a
\* style applies to a placeholder, the escape codes wrap the whole segment
\* prefix+value+suffix, in Template::render as in the executor
C23_AffixesInsideStyle ==
    (TemplateRendered /\ result.ok) => result.value = OutputOf(StyledWhole)

\* C24: Template::render on the compiled template returns the same result,
\* output string or error, as render_template on the template's source string
\* with the same registry, context and colour setting, and repeated renders
\* leave the tokens of the Template unchanged
C24_TemplateRenderIsRenderTemplate ==
    TemplateRendered =>
        LET seq == render_tokens_sequential(parse(bytes), registry, context, no_color).result
        IN  /\ result.ok <=> seq.ok
            /\ result.ok => result.value = seq.value
            /\ UsesSequential(count_placeholders(parse(bytes))) => result = seq
            /\ tokens = parse(bytes)

----------------------------------------------------------------------------
(* C25: the five fields of a placeholder body *)

\* the colons of s that no backslash escapes
UnescapedColons(s) ==
    {j \in 0..(Len(s) - 1) : At(s, j) = ":" /\ BackslashRun(s, -1, j) % 2 = 0}

\* the n-th unescaped colon of s, counted from 1
NthColon(s, n) ==
    CHOOSE j \in UnescapedColons(s) : Cardinality({k \in UnescapedColons(s) : k < j}) = n - 1

\* the number of colons split_fields may split at
SplitCount(s) == Min(4, Cardinality(UnescapedColons(s)))

\* the bytes between the (n-1)-th and the n-th split, the last piece running
\* to the end of the body
FieldBetween(s, n) ==
    Slice(s, IF n = 1 THEN 0 ELSE NthColon(s, n - 1) + 1,
             IF n <= SplitCount(s) THEN NthColon(s, n) ELSE Len(s))

\* C25: split_fields always yields exactly five fields: the body is split
\* only at its first four unescaped colons, every later colon stays verbatim
\* in the fifth field, and the fields after the last colon present are empty
C25_ExactlyFiveFields ==
    (mode = "split" /\ ppc = "done") =>
        /\ Len(fields) = 5
        /\ \A n \in 1..5 :
              fields[n] = IF n <= SplitCount(bytes) + 1 THEN FieldBetween(bytes, n) ELSE <<>>

\* a body with more than four unescaped colons: the fifth stays in the suffix
C25_Witness ==
    /\ mode = "split"
    /\ ppc = "done"
    /\ Cardinality(UnescapedColons(bytes)) >= 5
    /\ \E k \in 1..Len(fields[5]) : fields[5][k] = ":"

----------------------------------------------------------------------------
(* C26: where the body of a placeholder ends *)

\* the body of the placeholder token k: the bytes between its `{` and the
\* byte before the end of the token
BodyOf(k) == Slice(bytes, starts[k] + 1, TokenEnd(k) - 1)

\* C26: the body of a placeholder ends at the first unescaped `}` after its
\* `{`; an escaped `\}` never ends it, and a `{` inside the body is ordinary
\* content, so {module:{nested}} yields the Placeholder of module "module"
\* and style "{nested" followed by the Text "}"
C26_BodyEndsAtFirstClose ==
    (mode = "parse" /\ ppc = "done") =>
        /\ \A k \in 1..Len(tokens) :
              tokens[k].kind = "Placeholder" =>
                  /\ At(bytes, starts[k]) = "{"
                  /\ UnescapedCloses(bytes, starts[k]) /= {}
                  /\ TokenEnd(k) = FirstClose(bytes, starts[k]) + 1
                  /\ LET f == split_fields(BodyOf(k))
                     IN  tokens[k].params = [module |-> Decoded(f[1]),
                                             style  |-> Decoded(f[2]),
                                             format |-> Decoded(f[3]),
                                             prefix |-> Decoded(f[4]),
                                             suffix |-> Decoded(f[5])]
        /\ bytes = NestedExample =>
              tokens = <<Placeholder([module |-> <<"m", "o", "d", "u", "l", "e">>,
                                      style  |-> <<"{", "n", "e", "s", "t", "e", "d">>,
                                      format |-> <<>>, prefix |-> <<>>, suffix |-> <<>>]),
                         Text(<<"}">>)>>

\* the nested example has been parsed
C26_Witness ==
    /\ mode = "parse"
    /\ ppc = "done"
    /\ bytes = NestedExample
    /\ Len(tokens) = 2
    /\ tokens[1].kind = "Placeholder"
    /\ \E j \in 1..Len(tokens[1].params.style) : tokens[1].params.style[j] = "{"

----------------------------------------------------------------------------
(* C27: parse terminates *)

\* the loop of parse is not suspended forever: weak fairness of its steps.
\* A step of the loop is possible exactly while ppc = "scan", which stands
\* here for ENABLED <<ParseNext>>_vars
ParseLiveSpec ==
    ParseSpec /\ ([]<>(ppc /= "scan") \/ []<><<ParseNext>>_vars)

\* C27: parse terminates on every input: each call of next_token that returns
\* a token advances pos by at least one byte and never past the length of the
\* input, so the number of tokens is at most the length of the input in bytes
C27_ParseTerminates ==
    /\ [](mode = "parse" => (Len(tokens) <= pos /\ pos <= Len(bytes)))
    /\ [][(mode = "parse" /\ tokens' /= tokens) =>
              (Len(tokens') = Len(tokens) + 1 /\ pos' > pos /\ pos' <= Len(bytes))]_vars
    /\ <>(ppc = "done")

\* an input of which every byte is a token of its own
C27_Witness ==
    /\ mode = "parse"
    /\ ppc = "done"
    /\ Len(bytes) = MaxLen
    /\ Len(tokens) = Len(bytes)
    /\ pos = Len(bytes)

----------------------------------------------------------------------------
(* C28: the styles AnsiStyle::parse accepts *)

IsAttribute(t) == \E a \in DOMAIN Attributes : Attributes[a] = t

IsNamedColor(t) == t = Magenta \/ \E k \in 1..8 : ColorNames[k] = t

\* #RRGGBB: a hash and six hexadecimal digits
IsHexColor(t) == Len(t) = 7 /\ t[1] = "#" /\ \A k \in 2..7 : IsHexDigit(t[k])

IsColor(t) == IsNamedColor(t) \/ IsHexColor(t)

\* foreground+background; the foreground may be left out, as in +#112233
IsColorPair(t) ==
    \E k \in 1..Len(t) :
        /\ t[k] = "+"
        /\ k = 1 \/ IsColor(SubSeq(t, 1, k - 1))
        /\ IsColor(SubSeq(t, k + 1, Len(t)))

Acceptable(t) == IsAttribute(t) \/ IsColor(t) \/ IsColorPair(t)

\* AnsiStyle::parse has returned for a non-empty style
StyleParsed == mode = "style" /\ ppc \in {"parsed", "applied"} /\ bytes /= <<>>

\* C28: AnsiStyle::parse succeeds exactly when every dot-separated token is
\* an attribute keyword, a named color, a #RRGGBB hex color, or a
\* foreground+background pair of such colors; any other token makes it
\* return an error
C28_ParseAcceptsExactlyTheGrammar ==
    StyleParsed =>
        LET parts == Split(bytes, ".")
        IN  result.ok <=> \A k \in 1..Len(parts) : Acceptable(parts[k])

----------------------------------------------------------------------------
(* C29: what detect returns *)

\* the directories the walk may examine: the current one and at most
\* MAX_TRAVERSAL_DEPTH above it, up to the root
WithinReach == {l \in 0..MAX_TRAVERSAL_DEPTH : l < walk.dirs}

\* the directories within reach that hold the marker
Holding(marker) == walk.at[marker] \cap WithinReach

Nearest(marker) == CHOOSE l \in Holding(marker) : \A k \in Holding(marker) : l <= k

Farthest(S) == CHOOSE l \in S : \A k \in S : k <= l

\* the markers required that some directory within reach holds
Reachable == {m \in walk.required : Holding(m) /= {}}

\* the directory at which the walk has to stop
LastExamined ==
    IF Reachable = walk.required
    THEN Farthest({Nearest(m) : m \in walk.required})
    ELSE Farthest(WithinReach)

\* C29: detect maps each required marker to its path in the nearest directory
\* that holds it, starting at the current directory and walking at most 64
\* levels upward; a marker no examined directory holds is absent from the
\* result; the walk stops as soon as all markers are found, the root is
\* reached, or the depth bound is hit
C29_NearestMarkerWithinDepth ==
    (mode = "detect" /\ walk.pc = "returned") =>
        IF walk.required = {} \/ walk.dirs = 0 THEN DOMAIN walk.found = {}
        ELSE /\ DOMAIN walk.found = Reachable
             /\ \A m \in Reachable : walk.found[m] = Candidate(Nearest(m), m)
             /\ walk.depth = LastExamined
             /\ walk.depth <= MAX_TRAVERSAL_DEPTH

\* the depth bound is hit: a marker held only beyond it is absent, another
\* one is found above the current directory
C29_Witness ==
    /\ mode = "detect"
    /\ walk.pc = "returned"
    /\ walk.depth = MAX_TRAVERSAL_DEPTH
    /\ \E m \in walk.required : walk.at[m] /= {} /\ m \notin DOMAIN walk.found
    /\ \E m \in DOMAIN walk.found : walk.found[m].dir > 0

----------------------------------------------------------------------------
(* C30: the registry after a sequence of register calls *)

\* the register calls made under the name, by their position in events
RegisteredAt(name) == {i \in 1..Len(events) : events[i].arg.name = name}

\* the provider of the latest register call under the name
LatestProvider(name) ==
    events[CHOOSE i \in RegisteredAt(name) : \A j \in RegisteredAt(name) : j <= i].arg.module

\* the providers currently in the registry
CurrentProviders ==
    {LatestProvider(n) : n \in {m \in RegistryNames : RegisteredAt(m) /= {}}}

\* C30: after any sequence of register calls, re-registering a name included
\* (which replaces its entry), required_markers returns exactly the union of
\* the markers of the providers currently in the registry, and get(name)
\* returns the provider most recently registered under that name, or none
C30_RegistryHoldsLatest ==
    mode = "registry" =>
        /\ required_markers(registry) = UNION {fs_markers(p) : p \in CurrentProviders}
        /\ \A name \in RegistryNames \cup {s_fail} :
              registry_get(registry, name) =
                  IF RegisteredAt(name) = {} THEN Nothing ELSE Some(LatestProvider(name))

\* a name registered with a provider that has a marker and registered again
\* with one that has none: the marker is no longer required
C30_Witness ==
    /\ mode = "registry"
    /\ \E i, j \in 1..Len(events) :
          /\ i < j
          /\ events[i].arg.name = events[j].arg.name
          /\ fs_markers(events[i].arg.module) /= {}
          /\ fs_markers(events[i].arg.module) \cap required_markers(registry) = {}
    /\ registry_get(registry, s_go) = Some("OkModule")

====
